---- MODULE Spec2Model ----
(***************************************************************************)
(* Client-side connection and routing layer of grpc-async: the            *)
(* LoadBalancer (connection pool with a pluggable route resolver) and the  *)
(* ConnectionManager (registry of service clients and load balancers).     *)
(***************************************************************************)
EXTENDS Integers, Sequences, FiniteSets, TLC

(***************************************************************************)
(* Bounds of the model.                                                    *)
(***************************************************************************)
\* Width of the safe-integer range in the model: Number.MAX_SAFE_INTEGER is
\* 2^53 - 1; the model keeps the shape 2^w - 1 with an odd, small w, so that
\* 2^w leaves the same remainder as 2^53 modulo 1, 2, 3 and 4 servers.
SafeBits == 3

\* The RPC calls the application makes in a run.
MaxCalls == 1

\* The ChainingProxy objects of a run, the root included.
MaxNodes == 4

\* The call.returns() calls the application makes on one client-streaming
\* call.
MaxReturns == 3

\* The values a generator implementation yields in one call.
MaxYields == 2

\* The callers that are about to call getInstance() of one load balancer
\* at the same time.
MaxTasks == 3

(***************************************************************************)
(* Values.                                                                 *)
(***************************************************************************)
MAX_SAFE_INTEGER == 2 ^ SafeBits - 1

\* Addresses a server configuration may carry.
Addr == {"s1", "s2", "s3"}

\* An address no server configuration carries.
ForeignAddr == "s9"

\* Falsy results of a route resolver.
Undefined == "undefined"
EmptyString == ""

Credentials == {"insecure"}

\* Route params a caller passes to getInstance(); "null" is the default.
Params == {"null", "X"}

ConnectivityStates == {"IDLE", "CONNECTING", "READY", "TRANSIENT_FAILURE", "SHUTDOWN"}

\* The states a channel is seen to move to on its own: it fails, and it
\* recovers.
ChannelEvents == {"TRANSIENT_FAILURE", "IDLE"}

\* The load balancers of the model and the service each was built for.
LoadBalancers == {"lb1", "lb2"}

\* Service constructors: the method definitions, each with the path gRPC
\* gives it, "/<package>.<Service>/<Method>", as a string of characters.
Greeter ==
    [service |-> << [name |-> "m", path |-> <<"/", "a", ".", "G", "/", "m">>,
                     requestStream |-> FALSE, responseStream |-> FALSE] >>]
Echo ==
    [service |-> << [name |-> "m", path |-> <<"/", "b", ".", "E", "/", "m">>,
                     requestStream |-> FALSE, responseStream |-> FALSE] >>]
ServiceCtors == {Greeter, Echo}

\* LoadBalancer.service, set by the constructor.
ServiceOf == [lb \in LoadBalancers |-> Greeter]

\* The servers each load balancer is constructed with.
Server(address) == [address |-> address, credentials |-> "insecure"]
InitialServers ==
    [lb \in LoadBalancers |->
        IF lb = "lb1" THEN <<Server("s1"), Server("s2"), Server("s3")>>
        ELSE <<Server("s1"), Server("s2")>>]

\* No route resolver given to the constructor.
NoResolver == "null"

\* Route resolvers of the model: a resolver that is a function of the route
\* params alone (routeTable), and an arbitrary resolver, which may return
\* anything.
ParamsResolver == "byParams"
AnyResolver == "any"

\* What a route resolver can return.
ResolverResults == Addr \cup {ForeignAddr, Undefined, EmptyString}

ServerConfig == [address : Addr, credentials : Credentials]

NoIns == 0

VARIABLES
    servers,        \* LoadBalancer.servers: lb -> sequence of ServerConfig
    instances,      \* LoadBalancer.instances: lb -> [address -> client id]
    acc,            \* LoadBalancer.acc: lb -> counter
    routeResolver,  \* LoadBalancer.routeResolver: lb -> resolver
    routeTable,     \* the params-only resolver: lb -> [Params -> result]
    clients,        \* the clients connect() has created, by id
    registry,       \* ConnectionManager.registry: name -> target
    result,         \* what the last call did and returned
    recent,         \* lb -> the latest consecutive default-strategy selections
    affinity,       \* lb -> [params -> the clients returned for them]
    deregistered,   \* the names deregistered and not registered again
    calls,          \* the RPC calls made on clients, in the order made
    nodes           \* the ChainingProxy objects, in the order created

vars == <<servers, instances, acc, routeResolver, routeTable, clients,
          registry, result, recent, affinity, deregistered, calls, nodes>>

(***************************************************************************)
(* Helpers.                                                                *)
(***************************************************************************)
Addresses(configs) == [i \in 1..Len(configs) |-> configs[i].address]

Range(seq) == {seq[i] : i \in 1..Len(seq)}

IsFalsy(value) == value \in {Undefined, EmptyString}

\* A target handed to the ConnectionManager: the full name of a service (a
\* string of characters), a load balancer or a client; NoEntry is the
\* undefined that registry.get() gives for a name that is not registered.
StringTarget(name) ==
    [kind |-> "string", name |-> name, balancer |-> "", client |-> NoIns]
BalancerTarget(lb) ==
    [kind |-> "balancer", name |-> <<>>, balancer |-> lb, client |-> NoIns]
ClientTarget(id) ==
    [kind |-> "client", name |-> <<>>, balancer |-> "", client |-> id]
NoEntry ==
    [kind |-> "undefined", name |-> <<>>, balancer |-> "", client |-> NoIns]

\* No route resolver was called.
NoContext == [servers |-> <<>>, params |-> "null", acc |-> 0]

\* What a call did: the operation and its arguments, the value returned
\* (ret: a client, ok: a boolean), the error thrown, the address selected,
\* the service name its message carries (errName), the counter the call read,
\* the registry name it resolved, and the clients it closed, in order; for a
\* ChainingProxy, the node read or invoked, the property read, the child node
\* or the member returned, and the method called on the instance.
NoResult ==
    [op |-> "none", lb |-> "", params |-> "null", address |-> "",
     ret |-> NoIns, ok |-> FALSE, err |-> "", errName |-> <<>>, acc |-> 0,
     name |-> <<>>, target |-> NoEntry, closeConnection |-> FALSE,
     closed |-> <<>>, node |-> 0, prop |-> "", child |-> 0, member |-> "",
     method |-> <<>>, ctx |-> NoContext]

(***************************************************************************)
(* connect(): a new client object for one address; its channel starts     *)
(* IDLE.                                                                   *)
(***************************************************************************)
\* `owner` records who called connect(): a load balancer, or "app".
connect(service, address, credentials, owner) ==
    [service |-> service, address |-> address, credentials |-> credentials,
     state |-> "IDLE", owner |-> owner]

\* ins.close(): the channel shuts down.
CloseClient(client) == [client EXCEPT !.state = "SHUTDOWN"]

(***************************************************************************)
(* LoadBalancer                                                            *)
(***************************************************************************)
HasServer(configs, address) ==
    \E i \in 1..Len(configs) : configs[i].address = address

\* An addServer that puts the server first.
UnshiftServer(configs, server) == <<server>> \o configs

\* addServer: push unless the address is present.
PushServer(configs, server) == Append(configs, server)

\* removeServer: filter the address out.
FilterServers(configs, address) ==
    SelectSeq(configs, LAMBDA item : item.address # address)

\* this.instances[address]
InstanceAt(lb, address) ==
    IF address \in DOMAIN instances[lb] THEN instances[lb][address] ELSE NoIns

\* ins.getChannel().getConnectivityState(false), IDLE without an instance.
StateOf(lb, address) ==
    IF InstanceAt(lb, address) = NoIns
    THEN "IDLE"
    ELSE clients[InstanceAt(lb, address)].state

\* No filtering by connectivity state.
IsCandidateWhateverState(lb, address) == TRUE

\* A filter that drops only the instances that were shut down.
IsCandidateUnlessShutdown(lb, address) ==
    \/ InstanceAt(lb, address) = NoIns
    \/ StateOf(lb, address) # "SHUTDOWN"

\* The default strategy keeps the addresses whose instance, if any, is
\* neither SHUTDOWN nor TRANSIENT_FAILURE.
IsCandidate(lb, address) ==
    \/ InstanceAt(lb, address) = NoIns
    \/ StateOf(lb, address) \notin {"SHUTDOWN", "TRANSIENT_FAILURE"}

CandidateAddresses(lb) ==
    SelectSeq(Addresses(servers[lb]), LAMBDA address : IsCandidate(lb, address))

\* A pre-increment instead of the post-increment: addresses[++n % length].
RoundRobinPreIncrement(addresses, n) ==
    IF Len(addresses) = 0 THEN Undefined
    ELSE addresses[((n + 1) % Len(addresses)) + 1]

\* addresses[n % addresses.length]; undefined when the list is empty.
RoundRobin(addresses, n) ==
    IF Len(addresses) = 0 THEN Undefined ELSE addresses[(n % Len(addresses)) + 1]

\* A counter that stays at MAX_SAFE_INTEGER.
NextAccSaturates(n) == IF n + 1 > MAX_SAFE_INTEGER THEN MAX_SAFE_INTEGER ELSE n + 1

\* this.acc++ followed by the wraparound check.
NextAcc(n) == IF n + 1 > MAX_SAFE_INTEGER THEN 0 ELSE n + 1

\* A context that reports every server as IDLE.
ResolverContextAllIdle(lb, routeParams) ==
    [servers |-> [i \in 1..Len(servers[lb]) |->
                    [address |-> servers[lb][i].address,
                     credentials |-> servers[lb][i].credentials,
                     state |-> "IDLE"]],
     params |-> routeParams,
     acc |-> acc[lb]]

\* The context a custom route resolver is given.
ResolverContext(lb, routeParams) ==
    [servers |-> [i \in 1..Len(servers[lb]) |->
                    [address |-> servers[lb][i].address,
                     credentials |-> servers[lb][i].credentials,
                     state |-> StateOf(lb, servers[lb][i].address)]],
     params |-> routeParams,
     acc |-> acc[lb]]

\* What the route resolver of lb may return for a context.
Resolve(lb, ctx) ==
    IF routeResolver[lb] = ParamsResolver
    THEN {routeTable[lb][ctx.params]}
    ELSE ResolverResults

\* this.servers.find(config => config.address === address)
FindConfig(configs, address) ==
    LET found == {i \in 1..Len(configs) : configs[i].address = address}
    IN  IF found = {} THEN <<>>
        ELSE <<configs[CHOOSE i \in found : \A j \in found : i <= j]>>

\* No look at the cache: a new instance on every call.
ResolveInstanceAlwaysConnects(lb, address) ==
    LET config == FindConfig(servers[lb], address)
    IN  IF config = <<>>
        THEN [err |-> "The resolve server address is invalid", ret |-> NoIns,
              created |-> <<>>]
        ELSE [err |-> "", ret |-> Len(clients) + 1,
              created |-> <<connect(ServiceOf[lb], config[1].address,
                                   config[1].credentials, lb)>>]

\* No check that the address has a configuration: a new instance for any
\* address that has none, with the default credentials.
ResolveInstanceWithoutConfig(lb, address) ==
    LET ins == InstanceAt(lb, address)
    IN  IF ins # NoIns
        THEN [err |-> "", ret |-> ins, created |-> <<>>]
        ELSE [err |-> "", ret |-> Len(clients) + 1,
              created |-> <<connect(ServiceOf[lb], address, "insecure", lb)>>]

\* A cached instance is returned only while it is neither closed nor
\* failed.
ResolveInstanceHealthyOnly(lb, address) ==
    LET ins == InstanceAt(lb, address)
        config == FindConfig(servers[lb], address)
    IN  IF ins # NoIns /\ clients[ins].state \in {"SHUTDOWN", "TRANSIENT_FAILURE"}
        THEN [err |-> "No server address is available", ret |-> NoIns, created |-> <<>>]
        ELSE IF ins # NoIns
        THEN [err |-> "", ret |-> ins, created |-> <<>>]
        ELSE IF config = <<>>
        THEN [err |-> "The resolve server address is invalid", ret |-> NoIns,
              created |-> <<>>]
        ELSE [err |-> "", ret |-> Len(clients) + 1,
              created |-> <<connect(ServiceOf[lb], config[1].address,
                                   config[1].credentials, lb)>>]

\* A cached instance is returned only while the configuration of the address
\* has the credentials it was created with; a new instance otherwise.
ResolveInstanceOfConfig(lb, address) ==
    LET ins == InstanceAt(lb, address)
        config == FindConfig(servers[lb], address)
    IN  IF config = <<>> /\ ins = NoIns
        THEN [err |-> "The resolve server address is invalid", ret |-> NoIns,
              created |-> <<>>]
        ELSE IF ins # NoIns
                /\ (config = <<>> \/ clients[ins].credentials = config[1].credentials)
        THEN [err |-> "", ret |-> ins, created |-> <<>>]
        ELSE [err |-> "", ret |-> Len(clients) + 1,
              created |-> <<connect(ServiceOf[lb], config[1].address,
                                   config[1].credentials, lb)>>]

\* The instance for a selected address: the cached one, else a new one for
\* the address's configuration, which must exist.
ResolveInstance(lb, address) ==
    LET ins == InstanceAt(lb, address)
        config == FindConfig(servers[lb], address)
    IN  IF ins # NoIns
        THEN [err |-> "", ret |-> ins, created |-> <<>>]
        ELSE IF config = <<>>
        THEN [err |-> "The resolve server address is invalid", ret |-> NoIns,
              created |-> <<>>]
        ELSE [err |-> "", ret |-> Len(clients) + 1,
              created |-> <<connect(ServiceOf[lb], config[1].address,
                                   config[1].credentials, lb)>>]

\* The round-robin selection even when a route resolver is given.
getInstanceIgnoresResolver(lb, routeParams, resolved) ==
    LET address == RoundRobin(CandidateAddresses(lb), acc[lb])
        found == IF IsFalsy(address)
                 THEN [err |-> "No server address is available",
                       ret |-> NoIns, created |-> <<>>]
                 ELSE ResolveInstance(lb, address)
    IN  [address |-> address, acc |-> NextAcc(acc[lb]), err |-> found.err,
         ret |-> found.ret, created |-> found.created]

\* A getInstance that counts the calls that return a client only.
getInstanceCountsSuccess(lb, routeParams, resolved) ==
    LET address == IF routeResolver[lb] # NoResolver
                   THEN resolved
                   ELSE RoundRobin(CandidateAddresses(lb), acc[lb])
        found == IF IsFalsy(address)
                 THEN [err |-> "No server address is available",
                       ret |-> NoIns, created |-> <<>>]
                 ELSE ResolveInstance(lb, address)
    IN  [address |-> address,
         acc |-> IF found.err = "" THEN NextAcc(acc[lb]) ELSE acc[lb],
         err |-> found.err, ret |-> found.ret, created |-> found.created]

\* A getInstance whose default strategy looks at the route params: params
\* other than null select the first candidate.
getInstanceByParams(lb, routeParams, resolved) ==
    LET address == IF routeResolver[lb] # NoResolver
                   THEN resolved
                   ELSE IF routeParams # "null"
                   THEN RoundRobin(CandidateAddresses(lb), 0)
                   ELSE RoundRobin(CandidateAddresses(lb), acc[lb])
        found == IF IsFalsy(address)
                 THEN [err |-> "No server address is available",
                       ret |-> NoIns, created |-> <<>>]
                 ELSE ResolveInstance(lb, address)
    IN  [address |-> address, acc |-> NextAcc(acc[lb]), err |-> found.err,
         ret |-> found.ret, created |-> found.created]

\* getInstance(routeParams), the resolver having returned `resolved`.
getInstance(lb, routeParams, resolved) ==
    LET address == IF routeResolver[lb] # NoResolver
                   THEN resolved
                   ELSE RoundRobin(CandidateAddresses(lb), acc[lb])
        found == IF IsFalsy(address)
                 THEN [err |-> "No server address is available",
                       ret |-> NoIns, created |-> <<>>]
                 ELSE ResolveInstance(lb, address)
    IN  [address |-> address, acc |-> NextAcc(acc[lb]), err |-> found.err,
         ret |-> found.ret, created |-> found.created]

(***************************************************************************)
(* What the model remembers of earlier calls.                              *)
(***************************************************************************)
\* No instance of a configured server is SHUTDOWN or TRANSIENT_FAILURE.
AllHealthy(configs, ins, cl) ==
    \A i \in 1..Len(configs) :
        configs[i].address \in DOMAIN ins =>
            cl[ins[configs[i].address]].state \notin {"SHUTDOWN", "TRANSIENT_FAILURE"}

LastN(seq, n) ==
    IF Len(seq) <= n THEN seq ELSE SubSeq(seq, Len(seq) - n + 1, Len(seq))

\* recent[l] holds the selections of the latest consecutive successful
\* default-strategy calls made while the server list stayed the same and
\* every configured server stayed healthy, the last Len(servers[l]) of them.
RecentAfter(l, selected) ==
    IF \/ servers'[l] # servers[l]
       \/ ~AllHealthy(servers'[l], instances'[l], clients')
    THEN <<>>
    ELSE LastN(recent[l] \o selected, Len(servers[l]))

\* affinity[l][p] holds the clients that the successful calls with params p
\* returned since the server list last changed, for a params-only resolver.
AffinityAfter(l, returned) ==
    IF servers'[l] # servers[l]
    THEN [p \in Params |-> {}]
    ELSE [p \in Params |->
            IF p \in DOMAIN returned
            THEN affinity[l][p] \cup {returned[p]} ELSE affinity[l][p]]

\* deregistered holds the names for which deregister() returned true and no
\* register() has returned true since.
DeregisteredAfter ==
    IF result'.op = "deregister" /\ result'.ok
    THEN deregistered \cup {result'.name}
    ELSE IF result'.op = "register" /\ result'.ok
    THEN deregistered \ {result'.name}
    ELSE deregistered

Remember(lb, selected, returned) ==
    /\ recent' = [l \in LoadBalancers |->
                    RecentAfter(l, IF l = lb THEN selected ELSE <<>>)]
    /\ affinity' = [l \in LoadBalancers |->
                    AffinityAfter(l, IF l = lb THEN returned ELSE <<>>)]
    /\ deregistered' = DeregisteredAfter

NoCall == Remember("", <<>>, <<>>)

(***************************************************************************)
(* LoadBalancer operations as steps.                                       *)
(***************************************************************************)
\* The effect of one getInstance call on the load balancer.
DoGetInstance(lb, routeParams, call) ==
    /\ acc' = [acc EXCEPT ![lb] = call.acc]
    /\ clients' = clients \o call.created
    /\ instances' =
        IF call.created # <<>>
        THEN [instances EXCEPT ![lb] = (call.address :> call.ret) @@ @]
        ELSE instances
    /\ UNCHANGED <<servers, routeResolver, routeTable, calls, nodes>>

RememberCall(lb, routeParams, call) ==
    Remember(lb,
             IF routeResolver[lb] = NoResolver /\ call.err = ""
             THEN << [address |-> call.address, acc |-> acc[lb]] >>
             ELSE <<>>,
             IF routeResolver[lb] = ParamsResolver /\ call.err = ""
             THEN (routeParams :> call.ret)
             ELSE <<>>)

Resolutions(lb, routeParams) ==
    IF routeResolver[lb] = NoResolver
    THEN {Undefined}
    ELSE Resolve(lb, ResolverContext(lb, routeParams))

GetInstance(lb, routeParams) ==
    \E resolved \in Resolutions(lb, routeParams) :
        LET call == getInstance(lb, routeParams, resolved)
        IN  /\ DoGetInstance(lb, routeParams, call)
            /\ result' = [NoResult EXCEPT !.op = "getInstance", !.lb = lb,
                            !.params = routeParams, !.address = call.address,
                            !.ret = call.ret, !.ok = (call.err = ""),
                            !.err = call.err, !.acc = acc[lb],
                            !.ctx = IF routeResolver[lb] = NoResolver THEN NoContext
                                    ELSE ResolverContext(lb, routeParams)]
            /\ UNCHANGED registry
            /\ RememberCall(lb, routeParams, call)

\* addServer that pushes the server whatever the list holds.
AddServerAlways(lb, server) ==
    /\ servers' = [servers EXCEPT ![lb] = PushServer(@, server)]
    /\ result' = [NoResult EXCEPT !.op = "addServer", !.lb = lb,
                    !.address = server.address, !.ok = TRUE]
    /\ UNCHANGED <<instances, acc, routeResolver, routeTable, clients, registry, calls, nodes>>
    /\ NoCall

\* addServer that connects to the new server at once.
AddServerConnects(lb, server) ==
    LET added == ~HasServer(servers[lb], server.address)
                    /\ server.address \notin DOMAIN instances[lb]
    IN  /\ servers' = [servers EXCEPT ![lb] =
                        IF ~HasServer(@, server.address) THEN PushServer(@, server) ELSE @]
        /\ clients' = IF added
                      THEN Append(clients, connect(ServiceOf[lb], server.address,
                                                   server.credentials, lb))
                      ELSE clients
        /\ instances' = IF added
                        THEN [instances EXCEPT ![lb] =
                                (server.address :> (Len(clients) + 1)) @@ @]
                        ELSE instances
        /\ result' = [NoResult EXCEPT !.op = "addServer", !.lb = lb,
                        !.address = server.address,
                        !.ok = ~HasServer(servers[lb], server.address)]
        /\ UNCHANGED <<acc, routeResolver, routeTable, registry, calls, nodes>>
        /\ Remember("", <<>>, <<>>)

AddServer(lb, server) ==
    /\ servers' = [servers EXCEPT ![lb] =
                    IF ~HasServer(@, server.address) THEN PushServer(@, server) ELSE @]
    /\ result' = [NoResult EXCEPT !.op = "addServer", !.lb = lb,
                    !.address = server.address,
                    !.ok = ~HasServer(servers[lb], server.address)]
    /\ UNCHANGED <<instances, acc, routeResolver, routeTable, clients, registry, calls, nodes>>
    /\ NoCall

\* removeServer that closes the instance of the server it removes.
RemoveServerClosesInstance(lb, address) ==
    /\ servers' = [servers EXCEPT ![lb] =
                    IF HasServer(@, address) THEN FilterServers(@, address) ELSE @]
    /\ clients' = IF address \in DOMAIN instances[lb]
                  THEN [clients EXCEPT ![instances[lb][address]].state = "SHUTDOWN"]
                  ELSE clients
    /\ result' = [NoResult EXCEPT !.op = "removeServer", !.lb = lb,
                    !.address = address, !.ok = HasServer(servers[lb], address)]
    /\ UNCHANGED <<instances, acc, routeResolver, routeTable, registry, calls, nodes>>
    /\ Remember("", <<>>, <<>>)

RemoveServer(lb, address) ==
    /\ servers' = [servers EXCEPT ![lb] =
                    IF HasServer(@, address) THEN FilterServers(@, address) ELSE @]
    /\ result' = [NoResult EXCEPT !.op = "removeServer", !.lb = lb,
                    !.address = address, !.ok = HasServer(servers[lb], address)]
    /\ UNCHANGED <<instances, acc, routeResolver, routeTable, clients, registry, calls, nodes>>
    /\ NoCall

\* A set of client ids as a sequence, in the order of creation.
RECURSIVE InOrder(_)
InOrder(ids) ==
    IF ids = {} THEN <<>>
    ELSE LET first == CHOOSE id \in ids : \A other \in ids : id <= other
         IN  <<first>> \o InOrder(ids \ {first})

\* Object.values(this.instances): instances are stored as they are created.
InstancesOf(lb) == InOrder({instances[lb][a] : a \in DOMAIN instances[lb]})

\* Every client is closed, whichever were asked for.
CloseEveryClient(ids) ==
    [id \in DOMAIN clients |-> CloseClient(clients[id])]

\* The clients after ins.close() on each client of the sequence `ids`.
CloseAll(ids) ==
    [id \in DOMAIN clients |->
        IF id \in Range(ids) THEN CloseClient(clients[id]) ELSE clients[id]]

Close(lb) ==
    /\ clients' = CloseAll(InstancesOf(lb))
    /\ result' = [NoResult EXCEPT !.op = "close", !.lb = lb,
                    !.closed = InstancesOf(lb)]
    /\ UNCHANGED <<servers, instances, acc, routeResolver, routeTable, registry, calls, nodes>>
    /\ NoCall

\* A channel event that takes the server of a failed or closed channel
\* out of the list of its load balancer.
ChannelStateChangeRemoves(id, state) ==
    /\ clients[id].state # "SHUTDOWN"
    /\ clients[id].state # state
    /\ clients' = [clients EXCEPT ![id].state = state]
    /\ servers' = IF state = "TRANSIENT_FAILURE" /\ clients[id].owner \in LoadBalancers
                  THEN [servers EXCEPT ![clients[id].owner] =
                            FilterServers(@, clients[id].address)]
                  ELSE servers
    /\ result' = NoResult
    /\ UNCHANGED <<instances, acc, routeResolver, routeTable, registry, calls, nodes>>
    /\ NoCall

\* The channel of a client changes its connectivity state on its own; a
\* channel that was shut down stays so.
ChannelStateChange(id, state) ==
    /\ clients[id].state # "SHUTDOWN"
    /\ clients[id].state # state
    /\ clients' = [clients EXCEPT ![id].state = state]
    /\ result' = NoResult
    /\ UNCHANGED <<servers, instances, acc, routeResolver, routeTable, registry, calls, nodes>>
    /\ NoCall

(***************************************************************************)
(* The methods connect() gives a client, up to the sending of the request. *)
(***************************************************************************)
\* A method definition of the service: what connect() looks at.
MethodDefinitions == [requestStream : BOOLEAN, responseStream : BOOLEAN]

\* The errors the waitForReady of the gRPC client hands to its callback.
DeadlineError == "Failed to connect before the deadline"
ClosedError == "The channel has been closed"

\* ins[name](data): a method with a request stream calls the original
\* function at once; a unary or a server-streaming method first awaits
\* waitForReady(), whose deadline is now + connectTimeout.
Invoke(id, def) ==
    /\ Len(calls) < MaxCalls
    /\ calls' = Append(calls, [client |-> id, def |-> def,
                               pc |-> IF def.requestStream THEN "sent" ELSE "waitForReady",
                               err |-> ""])
    /\ result' = NoResult
    /\ UNCHANGED <<servers, instances, acc, routeResolver, routeTable, clients, registry, nodes>>
    /\ NoCall

\* The callback of waitForReady: err ? reject(err) : resolve(). A resolved
\* wait calls the original function; a rejected one rejects the call.
Settle(i, err) ==
    /\ calls' = [calls EXCEPT ![i] = [@ EXCEPT !.pc = IF err = "" THEN "sent" ELSE "rejected",
                                               !.err = err]]
    /\ result' = NoResult
    /\ UNCHANGED <<servers, instances, acc, routeResolver, routeTable, clients, registry, nodes>>
    /\ NoCall

\* The channel is READY: the callback gets no error.
ChannelReady(i) ==
    /\ i \in DOMAIN calls
    /\ calls[i].pc = "waitForReady"
    /\ clients[calls[i].client].state = "READY"
    /\ Settle(i, "")

\* The channel was shut down: the callback gets an error.
ChannelClosed(i) ==
    /\ i \in DOMAIN calls
    /\ calls[i].pc = "waitForReady"
    /\ clients[calls[i].client].state = "SHUTDOWN"
    /\ Settle(i, ClosedError)

\* The error of the deadline is dropped: the wait resolves.
DeadlineResolves(i) ==
    /\ i \in DOMAIN calls
    /\ calls[i].pc = "waitForReady"
    /\ Settle(i, "")

\* The deadline passes while the call waits: the callback gets an error.
DeadlineElapses(i) ==
    /\ i \in DOMAIN calls
    /\ calls[i].pc = "waitForReady"
    /\ Settle(i, DeadlineError)

(***************************************************************************)
(* ConnectionManager                                                       *)
(***************************************************************************)
\* str.split(sep) for a one-character separator: the pieces between the
\* separators, in order.
RECURSIVE Split(_, _)
Split(str, sep) ==
    LET at == {i \in 1..Len(str) : str[i] = sep}
    IN  IF at = {} THEN <<str>>
        ELSE LET first == CHOOSE i \in at : \A j \in at : i <= j
             IN  <<SubSeq(str, 1, first - 1)>>
                 \o Split(SubSeq(str, first + 1, Len(str)), sep)

\* The path of the service's first method, split at "/": the second piece.
getServiceFullName(ctor) ==
    LET firstMethod == ctor.service[1]
    IN  Split(firstMethod.path, "/")[2]

\* The constructor of a target that is not a string.
CtorOf(target) ==
    IF target.kind = "balancer"
    THEN ServiceOf[target.balancer]
    ELSE clients[target.client].service

unpackServiceFullName(target) ==
    IF target.kind = "string" THEN target.name ELSE getServiceFullName(CtorOf(target))

\* The registry is a Map: entries in the order of insertion.
Has(entries, name) == \E i \in 1..Len(entries) : entries[i].name = name

\* A lookup that falls back to the first entry.
GetOrFirst(entries, name) ==
    IF Has(entries, name)
    THEN LET i == CHOOSE i \in 1..Len(entries) : entries[i].name = name
         IN  entries[i].value
    ELSE IF entries # <<>> THEN entries[1].value ELSE NoEntry

Get(entries, name) ==
    IF Has(entries, name)
    THEN LET i == CHOOSE i \in 1..Len(entries) : entries[i].name = name
         IN  entries[i].value
    ELSE NoEntry

RegistryHas(name) == Has(registry, name)

RegistryGet(name) == Get(registry, name)

RegistrySet(name, value) ==
    IF RegistryHas(name)
    THEN [i \in 1..Len(registry) |->
            IF registry[i].name = name
            THEN [name |-> name, value |-> value] ELSE registry[i]]
    ELSE Append(registry, [name |-> name, value |-> value])

\* A delete that removes nothing.
RegistryDeleteNothing(name) == registry

RegistryDelete(name) == SelectSeq(registry, LAMBDA entry : entry.name # name)

\* The clients that value.close() closes, in order: a load balancer closes
\* its instances, a client closes itself.
ClosedBy(value) ==
    IF value.kind = "balancer" THEN InstancesOf(value.balancer)
    ELSE IF value.kind = "client" THEN <<value.client>>
    ELSE <<>>

RECURSIVE ClosedByEach(_)
ClosedByEach(entries) ==
    IF entries = <<>> THEN <<>>
    ELSE ClosedBy(Head(entries).value) \o ClosedByEach(Tail(entries))

\* register that overwrites the entry of a name in use.
RegisterOverwrites(target) ==
    LET name == getServiceFullName(CtorOf(target))
    IN  /\ registry' = RegistrySet(name, target)
        /\ result' = [NoResult EXCEPT !.op = "register", !.target = target,
                        !.name = name, !.ok = ~RegistryHas(name)]
        /\ UNCHANGED <<servers, instances, acc, routeResolver, routeTable, clients, calls, nodes>>
        /\ NoCall

Register(target) ==
    LET name == getServiceFullName(CtorOf(target))
    IN  /\ registry' = IF RegistryHas(name) THEN registry ELSE RegistrySet(name, target)
        /\ result' = [NoResult EXCEPT !.op = "register", !.target = target,
                        !.name = name, !.ok = ~RegistryHas(name)]
        /\ UNCHANGED <<servers, instances, acc, routeResolver, routeTable, clients, calls, nodes>>
        /\ NoCall

\* deregister that forgets to close: closeConnection only decides whether a
\* missing entry stops the call.
DeregisterWithoutClosing(target, closeConnection) ==
    LET name == unpackServiceFullName(target)
        balancer == RegistryGet(name)
        stop == closeConnection /\ balancer = NoEntry
    IN  /\ clients' = clients
        /\ registry' = IF stop THEN registry ELSE RegistryDelete(name)
        /\ result' = [NoResult EXCEPT !.op = "deregister", !.target = target,
                        !.name = name, !.closeConnection = closeConnection,
                        !.ok = IF stop THEN FALSE ELSE RegistryHas(name)]
        /\ UNCHANGED <<servers, instances, acc, routeResolver, routeTable, calls, nodes>>
        /\ Remember("", <<>>, <<>>)

\* deregister that takes a load balancer or a client for the entry to
\* remove: it removes and closes the entry of the name only when the
\* registered value is the target itself.
DeregisterOwnEntry(target, closeConnection) ==
    LET name == unpackServiceFullName(target)
        found == RegistryGet(name)
        balancer == IF target.kind = "string" \/ found = target THEN found ELSE NoEntry
        closes == IF closeConnection THEN ClosedBy(balancer) ELSE <<>>
        stop == balancer = NoEntry
    IN  /\ clients' = CloseAll(closes)
        /\ registry' = IF stop THEN registry ELSE RegistryDelete(name)
        /\ result' = [NoResult EXCEPT !.op = "deregister", !.target = target,
                        !.name = name, !.closeConnection = closeConnection,
                        !.closed = closes, !.ok = ~stop]
        /\ UNCHANGED <<servers, instances, acc, routeResolver, routeTable, calls, nodes>>
        /\ NoCall

Deregister(target, closeConnection) ==
    LET name == unpackServiceFullName(target)
        balancer == RegistryGet(name)
        closes == IF closeConnection THEN ClosedBy(balancer) ELSE <<>>
        stop == closeConnection /\ balancer = NoEntry
    IN  /\ clients' = CloseAll(closes)
        /\ registry' = IF stop THEN registry ELSE RegistryDelete(name)
        /\ result' = [NoResult EXCEPT !.op = "deregister", !.target = target,
                        !.name = name, !.closeConnection = closeConnection,
                        !.closed = closes,
                        !.ok = IF stop THEN FALSE ELSE RegistryHas(name)]
        /\ UNCHANGED <<servers, instances, acc, routeResolver, routeTable, calls, nodes>>
        /\ NoCall

\* getInstanceOf that leaves the counter of the load balancer where it was.
GetInstanceOfKeepsCounter(target, routeParams) ==
    LET name == unpackServiceFullName(target)
        client == RegistryGet(name)
        called == [NoResult EXCEPT !.op = "getInstanceOf", !.target = target,
                     !.name = name, !.params = routeParams]
    IN  /\ UNCHANGED registry
        /\ IF client = NoEntry
           THEN /\ result' = [called EXCEPT !.err = "ReferenceError",
                                                !.errName = name]
                /\ UNCHANGED <<servers, instances, acc, routeResolver, routeTable, clients, calls, nodes>>
                /\ Remember("", <<>>, <<>>)
           ELSE IF client.kind = "balancer"
           THEN \E resolved \in Resolutions(client.balancer, routeParams) :
                    LET call == getInstance(client.balancer, routeParams, resolved)
                    IN  /\ clients' = clients \o call.created
                        /\ instances' =
                            IF call.created # <<>>
                            THEN [instances EXCEPT ![client.balancer] =
                                    (call.address :> call.ret) @@ @]
                            ELSE instances
                        /\ UNCHANGED <<servers, acc, routeResolver, routeTable, calls, nodes>>
                        /\ result' = [called EXCEPT !.lb = client.balancer,
                                        !.address = call.address, !.ret = call.ret,
                                        !.ok = (call.err = ""), !.err = call.err,
                                        !.acc = acc[client.balancer]]
                        /\ RememberCall(client.balancer, routeParams, call)
           ELSE /\ result' = [called EXCEPT !.ret = client.client, !.ok = TRUE]
                /\ UNCHANGED <<servers, instances, acc, routeResolver, routeTable, clients, calls, nodes>>
                /\ Remember("", <<>>, <<>>)

\* getInstanceOf that looks at the target, not at the registered value, to
\* decide whether to delegate to a load balancer.
GetInstanceOfByTarget(target, routeParams) ==
    LET name == unpackServiceFullName(target)
        client == RegistryGet(name)
        called == [NoResult EXCEPT !.op = "getInstanceOf", !.target = target,
                     !.name = name, !.params = routeParams]
    IN  /\ UNCHANGED registry
        /\ IF client = NoEntry
           THEN /\ result' = [called EXCEPT !.err = "ReferenceError",
                                                !.errName = name]
                /\ UNCHANGED <<servers, instances, acc, routeResolver, routeTable, clients, calls, nodes>>
                /\ Remember("", <<>>, <<>>)
           ELSE IF target.kind = "balancer"
           THEN \E resolved \in Resolutions(target.balancer, routeParams) :
                    LET call == getInstance(target.balancer, routeParams, resolved)
                    IN  /\ DoGetInstance(target.balancer, routeParams, call)
                        /\ result' = [called EXCEPT !.lb = target.balancer,
                                        !.address = call.address, !.ret = call.ret,
                                        !.ok = (call.err = ""), !.err = call.err,
                                        !.acc = acc[target.balancer]]
                        /\ RememberCall(target.balancer, routeParams, call)
           ELSE /\ result' = [called EXCEPT
                                !.ret = IF client.kind = "client"
                                        THEN client.client ELSE NoIns,
                                !.ok = TRUE]
                /\ UNCHANGED <<servers, instances, acc, routeResolver, routeTable, clients, calls, nodes>>
                /\ Remember("", <<>>, <<>>)

GetInstanceOf(target, routeParams) ==
    LET name == unpackServiceFullName(target)
        client == RegistryGet(name)
        called == [NoResult EXCEPT !.op = "getInstanceOf", !.target = target,
                     !.name = name, !.params = routeParams]
    IN  /\ UNCHANGED registry
        /\ IF client = NoEntry
           THEN /\ result' = [called EXCEPT !.err = "ReferenceError",
                                                !.errName = name]
                /\ UNCHANGED <<servers, instances, acc, routeResolver, routeTable, clients, calls, nodes>>
                /\ NoCall
           ELSE IF client.kind = "balancer"
           THEN \E resolved \in Resolutions(client.balancer, routeParams) :
                    LET call == getInstance(client.balancer, routeParams, resolved)
                    IN  /\ DoGetInstance(client.balancer, routeParams, call)
                        /\ result' = [called EXCEPT !.lb = client.balancer,
                                        !.address = call.address, !.ret = call.ret,
                                        !.ok = (call.err = ""), !.err = call.err,
                                        !.acc = acc[client.balancer]]
                        /\ RememberCall(client.balancer, routeParams, call)
           ELSE /\ result' = [called EXCEPT !.ret = client.client, !.ok = TRUE]
                /\ UNCHANGED <<servers, instances, acc, routeResolver, routeTable, clients, calls, nodes>>
                /\ NoCall

\* close() that also clears the registry.
ManagerCloseClears ==
    /\ clients' = CloseAll(ClosedByEach(registry))
    /\ registry' = <<>>
    /\ result' = [NoResult EXCEPT !.op = "managerClose",
                    !.closed = ClosedByEach(registry)]
    /\ UNCHANGED <<servers, instances, acc, routeResolver, routeTable, calls, nodes>>
    /\ Remember("", <<>>, <<>>)

ManagerClose ==
    /\ clients' = CloseAll(ClosedByEach(registry))
    /\ result' = [NoResult EXCEPT !.op = "managerClose",
                    !.closed = ClosedByEach(registry)]
    /\ UNCHANGED <<servers, instances, acc, routeResolver, routeTable, registry, calls, nodes>>
    /\ NoCall

(***************************************************************************)
(* ChainingProxy                                                           *)
(***************************************************************************)
\* The members a ChainingProxy has: its fields and the methods of its
\* prototype.
Members == {"__target", "__manager", "__children", "__get", "__has"}

\* new ChainingProxy(rootNsp, manager): the root, which is not a function.
ChainingProxy(target) == [target |-> target, children |-> <<>>, callable |-> FALSE]

\* createChainingProxy(target, manager): a function with the fields of a
\* ChainingProxy.
createChainingProxy(target) ==
    [target |-> target, children |-> <<>>, callable |-> TRUE]

\* (this.__target ? this.__target + "." : "") + String(prop)
ChildTarget(target, prop) ==
    (IF target # <<>> THEN target \o <<".">> ELSE <<>>) \o <<prop>>

\* useChainingSyntax(rootNsp)
useChainingSyntax(rootNsp) == ChainingProxy(rootNsp)

\* A __get that makes a child on every read.
GetPropAnew(id, prop) ==
    /\ Len(nodes) < MaxNodes
    /\ nodes' = Append([nodes EXCEPT ![id].children = (prop :> (Len(nodes) + 1)) @@ @],
                       createChainingProxy(ChildTarget(nodes[id].target, prop)))
    /\ result' = [NoResult EXCEPT !.op = "get", !.node = id, !.prop = prop,
                    !.child = Len(nodes) + 1]
    /\ UNCHANGED <<servers, instances, acc, routeResolver, routeTable, clients, registry, calls>>
    /\ NoCall

\* __get(prop): a member of the node, else the child of that name, made and
\* kept on the first read.
GetProp(id, prop) ==
    LET node == nodes[id]
        got == [NoResult EXCEPT !.op = "get", !.node = id, !.prop = prop]
    IN  /\ IF prop \in Members
           THEN /\ nodes' = nodes
                /\ result' = [got EXCEPT !.member = prop]
           ELSE IF prop \in DOMAIN node.children
           THEN /\ nodes' = nodes
                /\ result' = [got EXCEPT !.child = node.children[prop]]
           ELSE /\ Len(nodes) < MaxNodes
                /\ nodes' = Append([nodes EXCEPT ![id].children = (prop :> (Len(nodes) + 1)) @@ @],
                                   createChainingProxy(ChildTarget(node.target, prop)))
                /\ result' = [got EXCEPT !.child = Len(nodes) + 1]
        /\ UNCHANGED <<servers, instances, acc, routeResolver, routeTable, clients, registry, calls>>
        /\ NoCall

\* The first place of a character in a string, counted from 0, or -1.
indexOf(str, ch) ==
    LET at == {i \in 1..Len(str) : str[i] = ch}
    IN  IF at = {} THEN -1 ELSE (CHOOSE i \in at : \A j \in at : i <= j) - 1

\* str.lastIndexOf(ch): positions count from 0; -1 when ch does not occur.
lastIndexOf(str, ch) ==
    LET at == {i \in 1..Len(str) : str[i] = ch}
    IN  IF at = {} THEN -1 ELSE (CHOOSE i \in at : \A j \in at : j <= i) - 1

\* str.slice(start, end): positions count from 0, a negative one counts from
\* the end.
Slice(str, start, end) ==
    LET n == Len(str)
        from == IF start < 0 THEN (IF n + start < 0 THEN 0 ELSE n + start)
                ELSE IF start > n THEN n ELSE start
        to == IF end < 0 THEN (IF n + end < 0 THEN 0 ELSE n + end)
              ELSE IF end > n THEN n ELSE end
    IN  SubSeq(str, from + 1, to)

\* typeof ins[method] === "function": the methods connect() installs for
\* the definitions of the service.
MethodOf(client, method) ==
    LET defs == client.service.service
        found == {i \in 1..Len(defs) : <<defs[i].name>> = method}
    IN  IF found = {} THEN <<>>
        ELSE <<defs[CHOOSE i \in found : \A j \in found : i <= j]>>

\* ins[method](data): the call the method of the instance starts.
StartCall(id, def, data) ==
    [client |-> id, method |-> def.name, data |-> data,
     def |-> [requestStream |-> def.requestStream, responseStream |-> def.responseStream],
     pc |-> IF def.requestStream THEN "sent" ELSE "waitForReady",
     err |-> ""]

\* The rest of a node's call once getInstanceOf has returned `ins`, the
\* clients being `after`: the method is called, or it is not a function.
CallMethod(called, ins, after, method) ==
    LET def == MethodOf(after[ins], method)
    IN  IF def = <<>>
        THEN /\ result' = [called EXCEPT !.err = "TypeError"]
             /\ calls' = calls
        ELSE /\ Len(calls) < MaxCalls
             /\ result' = [called EXCEPT !.ret = ins, !.ok = TRUE]
             /\ calls' = Append(calls, StartCall(ins, def[1], called.params))

\* chain(data): the target is split at its last "." into the service name
\* and the method; the instance comes from getInstanceOf(serviceName, data).
chain(id, data) ==
    LET target == nodes[id].target
        index == lastIndexOf(target, ".")
        serviceName == Slice(target, 0, index)
        method == Slice(target, index + 1, Len(target))
        client == RegistryGet(serviceName)
        called == [NoResult EXCEPT !.op = "invoke", !.node = id,
                     !.params = data, !.name = serviceName, !.method = method,
                     !.target = StringTarget(serviceName)]
    IN  /\ nodes[id].callable
        /\ UNCHANGED <<registry, nodes>>
        /\ IF client = NoEntry
           THEN /\ result' = [called EXCEPT !.err = "ReferenceError",
                                                !.errName = serviceName]
                /\ UNCHANGED <<servers, instances, acc, routeResolver, routeTable, clients, calls>>
                /\ NoCall
           ELSE IF client.kind = "balancer"
           THEN \E resolved \in Resolutions(client.balancer, data) :
                    LET call == getInstance(client.balancer, data, resolved)
                        here == [called EXCEPT !.lb = client.balancer,
                                    !.address = call.address,
                                    !.acc = acc[client.balancer]]
                    IN  /\ acc' = [acc EXCEPT ![client.balancer] = call.acc]
                        /\ clients' = clients \o call.created
                        /\ instances' =
                            IF call.created # <<>>
                            THEN [instances EXCEPT ![client.balancer] =
                                    (call.address :> call.ret) @@ @]
                            ELSE instances
                        /\ UNCHANGED <<servers, routeResolver, routeTable>>
                        /\ IF call.err # ""
                           THEN /\ result' = [here EXCEPT !.err = call.err]
                                /\ calls' = calls
                           ELSE CallMethod(here, call.ret, clients \o call.created, method)
                        /\ RememberCall(client.balancer, data, call)
           ELSE /\ CallMethod(called, client.client, clients, method)
                /\ UNCHANGED <<servers, instances, acc, routeResolver, routeTable, clients>>
                /\ NoCall

\* A node that keeps the instance of the first call that resolved one.
InvokeNodeResolved(id, data) ==
    IF calls # <<>>
    THEN /\ nodes[id].callable
         /\ result' = [NoResult EXCEPT !.op = "invoke", !.node = id, !.params = data,
                         !.ret = calls[1].client, !.ok = TRUE]
         /\ UNCHANGED <<servers, instances, acc, routeResolver, routeTable, clients,
                        registry, calls, nodes>>
         /\ NoCall
    ELSE chain(id, data)

\* A call of the node `id` with `data`.
InvokeNode(id, data) == chain(id, data)

(***************************************************************************)
(* The ConnectionManager of service proxies: every registered value is a   *)
(* ServiceProxy, which selects its instances as a LoadBalancer does, and a *)
(* node of the chaining syntax is called with the route params.            *)
(***************************************************************************)
\* ServiceProxy.packageName and ServiceProxy.serviceCtor.serviceName.
PackageNameOf == [lb \in LoadBalancers |-> <<"a">>]
ServiceNameOf == [lb \in LoadBalancers |-> <<"G">>]

\* The package and the service name of a target: a string is split at its
\* last "." and must have something on both sides of it.
destructPackageAndServiceNames(target) ==
    IF target.kind = "string"
    THEN LET index == lastIndexOf(target.name, ".")
         IN  IF index <= 0 \/ index = Len(target.name) - 1
             THEN [err |-> "TypeError", packageName |-> <<>>, serviceName |-> <<>>]
             ELSE [err |-> "",
                   packageName |-> Slice(target.name, 0, index),
                   serviceName |-> Slice(target.name, index + 1, Len(target.name))]
    ELSE [err |-> "",
          packageName |-> PackageNameOf[target.balancer],
          serviceName |-> ServiceNameOf[target.balancer]]

RegisterProxy(lb) ==
    LET name == PackageNameOf[lb] \o <<".">> \o ServiceNameOf[lb]
    IN  /\ registry' = IF RegistryHas(name) THEN registry
                       ELSE RegistrySet(name, BalancerTarget(lb))
        /\ result' = [NoResult EXCEPT !.op = "register", !.target = BalancerTarget(lb),
                        !.name = name, !.ok = ~RegistryHas(name)]
        /\ UNCHANGED <<servers, instances, acc, routeResolver, routeTable, clients, calls, nodes>>
        /\ NoCall

DeregisterProxy(target, closeConnection) ==
    LET names == destructPackageAndServiceNames(target)
        name == names.packageName \o <<".">> \o names.serviceName
        proxy == RegistryGet(name)
        closes == IF closeConnection THEN ClosedBy(proxy) ELSE <<>>
        stop == closeConnection /\ proxy = NoEntry
        called == [NoResult EXCEPT !.op = "deregister", !.target = target,
                     !.closeConnection = closeConnection]
    IN  /\ UNCHANGED <<servers, instances, acc, routeResolver, routeTable, calls, nodes>>
        /\ IF names.err # ""
           THEN /\ result' = [called EXCEPT !.err = names.err]
                /\ UNCHANGED <<clients, registry>>
           ELSE /\ clients' = CloseAll(closes)
                /\ registry' = IF stop THEN registry ELSE RegistryDelete(name)
                /\ result' = [called EXCEPT !.name = name, !.closed = closes,
                                !.ok = IF stop THEN FALSE ELSE RegistryHas(name)]
        /\ NoCall

\* What getInstanceOf(target, routeParams) of this manager does and
\* returns, told as the operation `op` on the node `id`.
LookupProxy(op, id, target, routeParams) ==
    LET names == destructPackageAndServiceNames(target)
        name == names.packageName \o <<".">> \o names.serviceName
        proxy == RegistryGet(name)
        called == [NoResult EXCEPT !.op = op, !.node = id, !.target = target,
                     !.params = routeParams]
    IN  /\ UNCHANGED <<registry, calls, nodes>>
        /\ IF names.err # ""
           THEN /\ result' = [called EXCEPT !.err = names.err]
                /\ UNCHANGED <<servers, instances, acc, routeResolver, routeTable, clients>>
                /\ NoCall
           ELSE IF proxy = NoEntry
           THEN /\ result' = [called EXCEPT !.name = name, !.err = "ReferenceError",
                                !.errName = name]
                /\ UNCHANGED <<servers, instances, acc, routeResolver, routeTable, clients>>
                /\ NoCall
           ELSE \E resolved \in Resolutions(proxy.balancer, routeParams) :
                    LET call == getInstance(proxy.balancer, routeParams, resolved)
                    IN  /\ acc' = [acc EXCEPT ![proxy.balancer] = call.acc]
                        /\ clients' = clients \o call.created
                        /\ instances' =
                            IF call.created # <<>>
                            THEN [instances EXCEPT ![proxy.balancer] =
                                    (call.address :> call.ret) @@ @]
                            ELSE instances
                        /\ UNCHANGED <<servers, routeResolver, routeTable>>
                        /\ result' = [called EXCEPT !.name = name, !.lb = proxy.balancer,
                                        !.address = call.address, !.ret = call.ret,
                                        !.ok = (call.err = ""), !.err = call.err,
                                        !.acc = acc[proxy.balancer]]
                        /\ RememberCall(proxy.balancer, routeParams, call)

GetInstanceOfProxy(target, routeParams) ==
    LookupProxy("getInstanceOf", 0, target, routeParams)

\* A node called with its own path less its last segment.
InvokeServiceNodeOfParent(id, routeParams) ==
    /\ nodes[id].callable
    /\ LookupProxy("invoke", id,
                   StringTarget(Slice(nodes[id].target, 0,
                                      lastIndexOf(nodes[id].target, "."))),
                   routeParams)

\* chain(routeParams): manager.getInstanceOf(target, routeParams), the
\* target being the path of the node.
InvokeServiceNode(id, routeParams) ==
    /\ nodes[id].callable
    /\ LookupProxy("invoke", id, StringTarget(nodes[id].target), routeParams)

(***************************************************************************)
(* A load balancer in use on its own.                                      *)
(***************************************************************************)
InitBalancers ==
    /\ servers = InitialServers
    /\ instances = [lb \in LoadBalancers |-> <<>>]
    /\ acc = [lb \in LoadBalancers |-> 0]
    /\ clients = <<>>
    /\ result = NoResult
    /\ recent = [lb \in LoadBalancers |-> <<>>]
    /\ affinity = [lb \in LoadBalancers |-> [p \in Params |-> {}]]
    /\ deregistered = {}
    /\ calls = <<>>
    /\ nodes = <<>>

Init ==
    /\ InitBalancers
    /\ routeResolver = [lb \in LoadBalancers |-> NoResolver]
    /\ routeTable = [lb \in LoadBalancers |-> [p \in Params |-> Undefined]]
    /\ registry = <<>>

Next ==
    \/ \E p \in Params : GetInstance("lb1", p)
    \/ \E server \in ServerConfig : AddServer("lb1", server)
    \/ \E address \in Addr : RemoveServer("lb1", address)
    \/ Close("lb1")
    \/ \E id \in DOMAIN clients :
        \E state \in ChannelEvents : ChannelStateChange(id, state)

Spec == Init /\ [][Next]_vars

(***************************************************************************)
(* A load balancer with any of the route resolvers, one server of which    *)
(* comes and goes.                                                         *)
(***************************************************************************)
\* The params-only resolvers of the model.
RouteTables == [Params -> {"s1", "s2", ForeignAddr}]

\* The server that is removed and added again.
MovingServer == Server("s1")

InitRouting ==
    /\ InitBalancers
    /\ \/ /\ routeResolver \in {[lb \in LoadBalancers |-> r] : r \in {NoResolver, AnyResolver}}
          /\ routeTable = [lb \in LoadBalancers |-> [p \in Params |-> Undefined]]
       \/ /\ routeResolver = [lb \in LoadBalancers |-> ParamsResolver]
          /\ \E table \in RouteTables : routeTable = [lb \in LoadBalancers |-> table]
    /\ registry = <<>>

NextRouting ==
    \/ \E p \in Params : GetInstance("lb1", p)
    \/ AddServer("lb1", MovingServer)
    \/ RemoveServer("lb1", MovingServer.address)
    \/ Close("lb1")
    \/ \E id \in DOMAIN clients : ChannelStateChange(id, "TRANSIENT_FAILURE")

SpecRouting == InitRouting /\ [][NextRouting]_vars

(***************************************************************************)
(* A ConnectionManager with load balancers and clients.                    *)
(***************************************************************************)
\* The names the application asks the manager for: the names of the two
\* services, the name of a service nobody registers, and strings that are not
\* of the form <package>.<Service>.
ServiceNames ==
    {getServiceFullName(Greeter), getServiceFullName(Echo), <<"c", ".", "F">>,
     <<"G">>, <<".", "G">>, <<"a", ".">>}

\* The load balancer the application hands to the manager.
ManagedBalancer == "lb2"

\* The clients the application has connected on its own and hands to the
\* manager.
PlainClients ==
    << connect(Greeter, "s1", "insecure", "app"),
       connect(Echo, "s1", "insecure", "app") >>

\* The targets the application has at hand.
ObjectTargets ==
    {BalancerTarget(ManagedBalancer)}
        \cup {ClientTarget(id) : id \in 1..Len(PlainClients)}

AnyTargets == ObjectTargets \cup {StringTarget(name) : name \in ServiceNames}

InitManager ==
    /\ servers = InitialServers
    /\ instances = [lb \in LoadBalancers |-> <<>>]
    /\ acc = [lb \in LoadBalancers |-> 0]
    /\ routeResolver = [lb \in LoadBalancers |-> NoResolver]
    /\ routeTable = [lb \in LoadBalancers |-> [p \in Params |-> Undefined]]
    /\ clients = PlainClients
    /\ registry = <<>>
    /\ result = NoResult
    /\ recent = [lb \in LoadBalancers |-> <<>>]
    /\ affinity = [lb \in LoadBalancers |-> [p \in Params |-> {}]]
    /\ deregistered = {}
    /\ calls = <<>>
    /\ nodes = <<>>

NextManager ==
    \/ \E target \in ObjectTargets : Register(target)
    \/ \E target \in AnyTargets, closeConnection \in BOOLEAN :
        Deregister(target, closeConnection)
    \/ \E target \in AnyTargets, p \in Params : GetInstanceOf(target, p)
    \/ ManagerClose
    \/ \E p \in Params : GetInstance(ManagedBalancer, p)
    \/ Close(ManagedBalancer)

SpecManager == InitManager /\ [][NextManager]_vars

(***************************************************************************)
(* RPC calls on the clients of a load balancer.                            *)
(***************************************************************************)
CalledBalancer == "lb2"

\* The states a channel moves to while a call waits for it.
CallChannelEvents == {"READY", "TRANSIENT_FAILURE"}

InitCall ==
    /\ InitBalancers
    /\ routeResolver = [lb \in LoadBalancers |-> NoResolver]
    /\ routeTable = [lb \in LoadBalancers |-> [p \in Params |-> Undefined]]
    /\ registry = <<>>

NextCall ==
    \/ GetInstance(CalledBalancer, "null")
    \/ Close(CalledBalancer)
    \/ \E id \in DOMAIN clients :
        \E state \in CallChannelEvents : ChannelStateChange(id, state)
    \/ \E id \in DOMAIN clients : \E def \in MethodDefinitions : Invoke(id, def)
    \/ \E i \in 1..MaxCalls : ChannelReady(i)
    \/ \E i \in 1..MaxCalls : ChannelClosed(i)
    \/ \E i \in 1..MaxCalls : DeadlineElapses(i)

SpecCall == InitCall /\ [][NextCall]_vars

\* The timer of a deadline fires.
SpecCallFair == SpecCall /\ \A i \in 1..MaxCalls : WF_vars(DeadlineElapses(i))

(***************************************************************************)
(* The chaining syntax of a ConnectionManager.                             *)
(***************************************************************************)
\* The root namespaces given to useChainingSyntax: none, and the package of
\* the Greeter service.
RootNamespaces == {<<>>, <<"a">>}

\* The properties the application reads on the nodes: the package, the
\* service and the method of Greeter, and a member of every node.
PropNames == {"a", "G", "m", "__target"}

\* What the application registers and deregisters: the load balancer and a
\* client of the Greeter service.
ChainTargets == {BalancerTarget(ManagedBalancer), ClientTarget(1)}

InitChain ==
    /\ servers = InitialServers
    /\ instances = [lb \in LoadBalancers |-> <<>>]
    /\ acc = [lb \in LoadBalancers |-> 0]
    /\ routeResolver = [lb \in LoadBalancers |-> NoResolver]
    /\ routeTable = [lb \in LoadBalancers |-> [p \in Params |-> Undefined]]
    /\ clients = PlainClients
    /\ registry = <<>>
    /\ result = NoResult
    /\ recent = [lb \in LoadBalancers |-> <<>>]
    /\ affinity = [lb \in LoadBalancers |-> [p \in Params |-> {}]]
    /\ deregistered = {}
    /\ calls = <<>>
    /\ \E rootNsp \in RootNamespaces : nodes = <<useChainingSyntax(rootNsp)>>

NextChain ==
    \/ \E target \in ChainTargets : Register(target)
    \/ \E target \in ChainTargets : Deregister(target, FALSE)
    \/ \E id \in DOMAIN nodes : \E prop \in PropNames : GetProp(id, prop)
    \/ \E id \in DOMAIN nodes : \E data \in Params : InvokeNode(id, data)

SpecChain == InitChain /\ [][NextChain]_vars

(***************************************************************************)
(* The chaining syntax of the ConnectionManager of service proxies.        *)
(***************************************************************************)
\* The targets the application has at hand: the proxy and strings.
ProxyTargets ==
    {BalancerTarget(ManagedBalancer), StringTarget(<<"a", ".", "G">>), StringTarget(<<"G">>)}

\* The properties the application reads: the package and the service of the
\* proxy, and a member of every node.
ProxyPropNames == {"a", "G", "__target"}

InitChainProxy ==
    /\ servers = InitialServers
    /\ instances = [lb \in LoadBalancers |-> <<>>]
    /\ acc = [lb \in LoadBalancers |-> 0]
    /\ routeResolver = [lb \in LoadBalancers |-> NoResolver]
    /\ routeTable = [lb \in LoadBalancers |-> [p \in Params |-> Undefined]]
    /\ clients = <<>>
    /\ registry = <<>>
    /\ result = NoResult
    /\ recent = [lb \in LoadBalancers |-> <<>>]
    /\ affinity = [lb \in LoadBalancers |-> [p \in Params |-> {}]]
    /\ deregistered = {}
    /\ calls = <<>>
    /\ nodes = <<useChainingSyntax(<<>>)>>

NextChainProxy ==
    \/ RegisterProxy(ManagedBalancer)
    \/ \E target \in ProxyTargets : DeregisterProxy(target, FALSE)
    \/ \E target \in ProxyTargets, p \in Params : GetInstanceOfProxy(target, p)
    \/ \E id \in DOMAIN nodes : \E prop \in ProxyPropNames : GetProp(id, prop)
    \/ \E id \in DOMAIN nodes : \E p \in Params : InvokeServiceNode(id, p)

SpecChainProxy == InitChainProxy /\ [][NextChainProxy]_vars

(***************************************************************************)
(* Concurrent callers of one load balancer: each is a task that the event  *)
(* loop runs at some time, and its getInstance() call runs to its end      *)
(* before any other task runs.                                             *)
(***************************************************************************)
TaskBalancer == "lb1"

\* A caller is scheduled: its call has not run yet.
Spawn(routeParams) ==
    /\ Len(calls) < MaxTasks
    /\ calls' = Append(calls, [pc |-> "pending", params |-> routeParams, acc |-> 0,
                               address |-> Undefined, ret |-> NoIns])
    /\ result' = NoResult
    /\ UNCHANGED <<servers, instances, acc, routeResolver, routeTable, clients, registry, nodes>>
    /\ NoCall

\* A call that leaves the counter as it found it.
RunTaskKeepsCounter(i) ==
    /\ calls[i].pc = "pending"
    /\ \E resolved \in Resolutions(TaskBalancer, calls[i].params) :
        LET call == getInstance(TaskBalancer, calls[i].params, resolved)
        IN  /\ clients' = clients \o call.created
            /\ instances' =
                IF call.created # <<>>
                THEN [instances EXCEPT ![TaskBalancer] = (call.address :> call.ret) @@ @]
                ELSE instances
            /\ calls' = [calls EXCEPT ![i] = [@ EXCEPT !.pc = "done", !.acc = acc[TaskBalancer],
                                                        !.address = call.address,
                                                        !.ret = call.ret]]
            /\ result' = [NoResult EXCEPT !.op = "getInstance", !.lb = TaskBalancer,
                            !.params = calls[i].params, !.address = call.address,
                            !.ret = call.ret, !.ok = (call.err = ""),
                            !.err = call.err, !.acc = acc[TaskBalancer]]
            /\ UNCHANGED <<servers, acc, routeResolver, routeTable, registry, nodes>>
            /\ RememberCall(TaskBalancer, calls[i].params, call)

\* The task i runs: its getInstance() call, from the reading of the counter
\* to the caching of the client, is one step.
RunTask(i) ==
    /\ calls[i].pc = "pending"
    /\ \E resolved \in Resolutions(TaskBalancer, calls[i].params) :
        LET call == getInstance(TaskBalancer, calls[i].params, resolved)
        IN  /\ acc' = [acc EXCEPT ![TaskBalancer] = call.acc]
            /\ clients' = clients \o call.created
            /\ instances' =
                IF call.created # <<>>
                THEN [instances EXCEPT ![TaskBalancer] = (call.address :> call.ret) @@ @]
                ELSE instances
            /\ calls' = [calls EXCEPT ![i] = [@ EXCEPT !.pc = "done", !.acc = acc[TaskBalancer],
                                                        !.address = call.address,
                                                        !.ret = call.ret]]
            /\ result' = [NoResult EXCEPT !.op = "getInstance", !.lb = TaskBalancer,
                            !.params = calls[i].params, !.address = call.address,
                            !.ret = call.ret, !.ok = (call.err = ""),
                            !.err = call.err, !.acc = acc[TaskBalancer]]
            /\ UNCHANGED <<servers, routeResolver, routeTable, registry, nodes>>
            /\ RememberCall(TaskBalancer, calls[i].params, call)

\* A load balancer of the default strategy whose counter earlier calls have
\* left anywhere, with no client cached.
InitTasks ==
    /\ servers = InitialServers
    /\ instances = [lb \in LoadBalancers |-> <<>>]
    /\ \E n \in 0..MAX_SAFE_INTEGER :
        acc = [lb \in LoadBalancers |-> IF lb = TaskBalancer THEN n ELSE 0]
    /\ routeResolver = [lb \in LoadBalancers |-> NoResolver]
    /\ routeTable = [lb \in LoadBalancers |-> [p \in Params |-> Undefined]]
    /\ clients = <<>>
    /\ registry = <<>>
    /\ result = NoResult
    /\ recent = [lb \in LoadBalancers |-> <<>>]
    /\ affinity = [lb \in LoadBalancers |-> [p \in Params |-> {}]]
    /\ deregistered = {}
    /\ calls = <<>>
    /\ nodes = <<>>

NextTasks ==
    \/ \E p \in Params : Spawn(p)
    \/ \E i \in DOMAIN calls : RunTask(i)

SpecTasks == InitTasks /\ [][NextTasks]_vars

(***************************************************************************)
(* A client-streaming call: the stream connect()'s method returns, its     *)
(* returns() and the callback of the response.                             *)
(***************************************************************************)
\* What the callback of the original function gets: a reply or an error.
Outcomes == {"reply", "error"}

\* client.method(metadata): the original function is called with the
\* callback; task and result are null, and no promise has been returned.
StartStream(id) ==
    /\ Len(calls) < MaxCalls
    /\ calls' = Append(calls, [client |-> id, pc |-> "sent", ended |-> FALSE,
                               fired |-> FALSE, task |-> 0, result |-> "null",
                               promises |-> <<>>])
    /\ result' = NoResult
    /\ UNCHANGED <<servers, instances, acc, routeResolver, routeTable, clients, registry, nodes>>
    /\ NoCall

\* call.write() and call.end() by the application: the request stream ends.
EndStream(i) ==
    /\ ~calls[i].ended
    /\ calls' = [calls EXCEPT ![i].ended = TRUE]
    /\ result' = NoResult
    /\ UNCHANGED <<servers, instances, acc, routeResolver, routeTable, clients, registry, nodes>>
    /\ NoCall

\* call.returns(): a new promise; the stream is ended if it is open; the
\* promise is settled from result if there is one, else it becomes the task.
Returns(i) ==
    LET call == calls[i]
        promise == Len(call.promises) + 1
    IN  /\ Len(call.promises) < MaxReturns
        /\ calls' = [calls EXCEPT ![i] =
                        IF call.result # "null"
                        THEN [call EXCEPT !.ended = TRUE,
                                          !.promises = Append(@, call.result)]
                        ELSE [call EXCEPT !.ended = TRUE,
                                          !.promises = Append(@, "pending"),
                                          !.task = promise]]
        /\ result' = [NoResult EXCEPT !.op = "returns", !.ret = promise]
        /\ UNCHANGED <<servers, instances, acc, routeResolver, routeTable, clients, registry, nodes>>
        /\ NoCall

\* The callback of the original function, called once: with the reply after
\* the request stream has ended, or with an error at any time. It settles
\* the task if there is one, else it keeps the outcome in result.
Respond(i, outcome) ==
    LET call == calls[i]
    IN  /\ ~call.fired
        /\ outcome = "reply" => call.ended
        /\ calls' = [calls EXCEPT ![i] =
                        IF call.task # 0
                        THEN [call EXCEPT !.fired = TRUE,
                                          !.promises[call.task] = outcome]
                        ELSE [call EXCEPT !.fired = TRUE, !.result = outcome]]
        /\ result' = NoResult
        /\ UNCHANGED <<servers, instances, acc, routeResolver, routeTable, clients, registry, nodes>>
        /\ NoCall

InitStream ==
    /\ InitBalancers
    /\ routeResolver = [lb \in LoadBalancers |-> NoResolver]
    /\ routeTable = [lb \in LoadBalancers |-> [p \in Params |-> Undefined]]
    /\ registry = <<>>

NextStream ==
    \/ GetInstance(CalledBalancer, "null")
    \/ \E id \in DOMAIN clients : StartStream(id)
    \/ \E i \in DOMAIN calls : EndStream(i)
    \/ \E i \in DOMAIN calls : Returns(i)
    \/ \E i \in DOMAIN calls : \E outcome \in Outcomes : Respond(i, outcome)

SpecStream == InitStream /\ [][NextStream]_vars

(***************************************************************************)
(* A unary call of a client: the promise the method returns, the wait for  *)
(* the channel, the original function and its callback.                    *)
(***************************************************************************)
\* client.method(data): a promise that is pending; waitForReady() is
\* called with the deadline now + connectTimeout.
CallUnary(id) ==
    /\ Len(calls) < MaxCalls
    /\ calls' = Append(calls, [client |-> id, pc |-> "waitForReady", invoked |-> 0,
                               settled |-> <<>>])
    /\ result' = NoResult
    /\ UNCHANGED <<servers, instances, acc, routeResolver, routeTable, clients, registry, nodes>>
    /\ NoCall

\* A failed wait that calls the original function all the same.
WaitForReadyCatchInvokes(i, err) ==
    /\ calls[i].pc = "waitForReady"
    /\ err = ClosedError => clients[calls[i].client].state = "SHUTDOWN"
    /\ calls' = [calls EXCEPT ![i] = [@ EXCEPT !.pc = "sent", !.invoked = @ + 1,
                                               !.settled = Append(@, [by |-> "reject",
                                                                      with |-> err])]]
    /\ result' = NoResult
    /\ UNCHANGED <<servers, instances, acc, routeResolver, routeTable, clients, registry, nodes>>
    /\ NoCall

\* waitForReady() rejects, with the error of the deadline or of the closed
\* channel: .catch(reject) rejects the promise.
WaitForReadyCatch(i, err) ==
    /\ calls[i].pc = "waitForReady"
    /\ err = ClosedError => clients[calls[i].client].state = "SHUTDOWN"
    /\ calls' = [calls EXCEPT ![i] = [@ EXCEPT !.pc = "rejected",
                                               !.settled = Append(@, [by |-> "reject",
                                                                      with |-> err])]]
    /\ result' = NoResult
    /\ UNCHANGED <<servers, instances, acc, routeResolver, routeTable, clients, registry, nodes>>
    /\ NoCall

\* waitForReady() resolves, the channel being READY: .then() calls the
\* original function with the callback.
WaitForReadyThen(i) ==
    /\ calls[i].pc = "waitForReady"
    /\ clients[calls[i].client].state = "READY"
    /\ calls' = [calls EXCEPT ![i] = [@ EXCEPT !.pc = "sent", !.invoked = @ + 1]]
    /\ result' = NoResult
    /\ UNCHANGED <<servers, instances, acc, routeResolver, routeTable, clients, registry, nodes>>
    /\ NoCall

\* The callback of the original function: reject(err) or resolve(res).
UnaryCallback(i, outcome) ==
    /\ calls[i].pc = "sent"
    /\ calls' = [calls EXCEPT ![i] =
                    [@ EXCEPT !.pc = "called back",
                              !.settled = Append(@, [by |-> IF outcome = "error"
                                                            THEN "reject" ELSE "resolve",
                                                     with |-> outcome])]]
    /\ result' = NoResult
    /\ UNCHANGED <<servers, instances, acc, routeResolver, routeTable, clients, registry, nodes>>
    /\ NoCall

InitUnary ==
    /\ InitBalancers
    /\ routeResolver = [lb \in LoadBalancers |-> NoResolver]
    /\ routeTable = [lb \in LoadBalancers |-> [p \in Params |-> Undefined]]
    /\ registry = <<>>

NextUnary ==
    \/ GetInstance(CalledBalancer, "null")
    \/ Close(CalledBalancer)
    \/ \E id \in DOMAIN clients :
        \E state \in CallChannelEvents : ChannelStateChange(id, state)
    \/ \E id \in DOMAIN clients : CallUnary(id)
    \/ \E i \in DOMAIN calls : WaitForReadyThen(i)
    \/ \E i \in DOMAIN calls : \E err \in {DeadlineError, ClosedError} :
        WaitForReadyCatch(i, err)
    \/ \E i \in DOMAIN calls : \E outcome \in Outcomes : UnaryCallback(i, outcome)

SpecUnary == InitUnary /\ [][NextUnary]_vars

\* The timer of the deadline fires, and gRPC calls the callback of a call
\* it was given.
SpecUnaryFair ==
    /\ SpecUnary
    /\ \A i \in 1..MaxCalls :
        /\ WF_vars(i \in DOMAIN calls /\ WaitForReadyCatch(i, DeadlineError))
        /\ WF_vars(i \in DOMAIN calls /\ \E outcome \in Outcomes : UnaryCallback(i, outcome))

(***************************************************************************)
(* A load balancer one server of which is replaced: removed, and added     *)
(* again at the same address with other credentials.                       *)
(***************************************************************************)
\* The descriptor that replaces the one of MovingServer.
ReplacementServer == [address |-> MovingServer.address, credentials |-> "ssl"]

InitReplace == Init

NextReplace ==
    \/ \E p \in Params : GetInstance("lb1", p)
    \/ \E server \in {MovingServer, ReplacementServer} : AddServer("lb1", server)
    \/ RemoveServer("lb1", MovingServer.address)
    \/ \E id \in DOMAIN clients : ChannelStateChange(id, "TRANSIENT_FAILURE")

SpecReplace == InitReplace /\ [][NextReplace]_vars

(***************************************************************************)
(* serve(): the functions it registers for the methods of a service, and   *)
(* the calls gRPC dispatches to them.                                      *)
(***************************************************************************)
\* What an implementation of a unary or client-streaming method does when
\* it is called: a function that is not async returns a value or throws, an
\* async function returns a promise that resolves or rejects.
Behaviours == {"returns", "throws", "resolves", "rejects"}

\* What a generator implementation does: it yields values and then
\* finishes, by returning or by throwing.
Values == {"v1", "v2"}
Generators ==
    [values : UNION {[1..n -> Values] : n \in 0..MaxYields}, finish : {"returns", "throws"}]

\* newFn(call, callback) of a unary or client-streaming method:
\* Promise.resolve(originalFn(...)).then(...).catch(...). A function that
\* throws ends newFn before the promise exists.
DispatchCall(requestStream, behaviour) ==
    /\ Len(calls) < MaxCalls
    /\ calls' = Append(calls, [requestStream |-> requestStream, responseStream |-> FALSE,
                               behaviour |-> behaviour,
                               pc |-> IF behaviour = "throws" THEN "thrown" ELSE "promised",
                               callbacks |-> <<>>])
    /\ result' = NoResult
    /\ UNCHANGED <<servers, instances, acc, routeResolver, routeTable, clients, registry, nodes>>
    /\ NoCall

\* .then(result => callback(null, result))
ThenCallback(i) ==
    /\ ~calls[i].responseStream
    /\ calls[i].pc = "promised"
    /\ calls[i].behaviour \in {"returns", "resolves"}
    /\ calls' = [calls EXCEPT ![i] =
                    [@ EXCEPT !.pc = "done",
                              !.callbacks = Append(@, [err |-> "null", result |-> "result"])]]
    /\ result' = NoResult
    /\ UNCHANGED <<servers, instances, acc, routeResolver, routeTable, clients, registry, nodes>>
    /\ NoCall

\* .catch(err => callback(err, void 0))
CatchCallback(i) ==
    /\ ~calls[i].responseStream
    /\ calls[i].pc = "promised"
    /\ calls[i].behaviour = "rejects"
    /\ calls' = [calls EXCEPT ![i] =
                    [@ EXCEPT !.pc = "done",
                              !.callbacks = Append(@, [err |-> "err", result |-> "undefined"])]]
    /\ result' = NoResult
    /\ UNCHANGED <<servers, instances, acc, routeResolver, routeTable, clients, registry, nodes>>
    /\ NoCall

\* newFn(stream) of a server-streaming or duplex method with a generator
\* implementation: the for await loop starts.
DispatchStream(requestStream, generator) ==
    /\ Len(calls) < MaxCalls
    /\ calls' = Append(calls, [requestStream |-> requestStream, responseStream |-> TRUE,
                               generator |-> generator, pc |-> "looping",
                               written |-> <<>>, ended |-> 0])
    /\ result' = NoResult
    /\ UNCHANGED <<servers, instances, acc, routeResolver, routeTable, clients, registry, nodes>>
    /\ NoCall

\* The generator yields its next value: stream.write(value).
WriteValue(i) ==
    /\ calls[i].responseStream
    /\ calls[i].pc = "looping"
    /\ Len(calls[i].written) < Len(calls[i].generator.values)
    /\ calls' = [calls EXCEPT ![i].written =
                    Append(@, calls[i].generator.values[Len(@) + 1])]
    /\ result' = NoResult
    /\ UNCHANGED <<servers, instances, acc, routeResolver, routeTable, clients, registry, nodes>>
    /\ NoCall

\* The generator has no more value: when it returns, the loop ends and
\* stream.end() follows; when it throws, the loop throws and newFn ends
\* there, its promise rejected.
GeneratorFinishes(i) ==
    /\ calls[i].responseStream
    /\ calls[i].pc = "looping"
    /\ Len(calls[i].written) = Len(calls[i].generator.values)
    /\ calls' = [calls EXCEPT ![i] =
                    IF calls[i].generator.finish = "returns"
                    THEN [@ EXCEPT !.pc = "done", !.ended = @ + 1]
                    ELSE [@ EXCEPT !.pc = "thrown"]]
    /\ result' = NoResult
    /\ UNCHANGED <<servers, instances, acc, routeResolver, routeTable, clients, registry, nodes>>
    /\ NoCall

InitServe ==
    /\ InitBalancers
    /\ routeResolver = [lb \in LoadBalancers |-> NoResolver]
    /\ routeTable = [lb \in LoadBalancers |-> [p \in Params |-> Undefined]]
    /\ registry = <<>>

NextServe ==
    \/ \E requestStream \in BOOLEAN, behaviour \in Behaviours :
        DispatchCall(requestStream, behaviour)
    \/ \E i \in DOMAIN calls : ThenCallback(i)
    \/ \E i \in DOMAIN calls : CatchCallback(i)
    \/ \E requestStream \in BOOLEAN, generator \in Generators :
        DispatchStream(requestStream, generator)
    \/ \E i \in DOMAIN calls : WriteValue(i)
    \/ \E i \in DOMAIN calls : GeneratorFinishes(i)

SpecServe == InitServe /\ [][NextServe]_vars

(***************************************************************************)
(* Properties.                                                             *)
(***************************************************************************)
\* The position of an address in a list of servers, 0 when it is not there.
PositionOf(configs, address) ==
    LET at == {i \in 1..Len(configs) : configs[i].address = address}
    IN  IF at = {} THEN 0 ELSE CHOOSE i \in at : \A j \in at : i <= j

\* The calls of the window follow each other in insertion order, taken
\* cyclically, and a full window holds every address.
InCyclicOrder(lb) ==
    LET n == Len(servers[lb])
        w == recent[lb]
    IN  /\ \A i \in 1..(Len(w) - 1) :
            PositionOf(servers[lb], w[i + 1].address)
                = (PositionOf(servers[lb], w[i].address) % n) + 1
        /\ Len(w) = n =>
            {w[i].address : i \in 1..Len(w)} = Range(Addresses(servers[lb]))

\* The counter did not wrap around between the calls of the window.
NoWrapWithin(lb) ==
    \A i \in 1..(Len(recent[lb]) - 1) : recent[lb][i].acc # MAX_SAFE_INTEGER

\* C1 as stated: with the default strategy, all N servers healthy and the
\* server list unchanged, any N consecutive getInstance() calls return all N
\* addresses exactly once each, in insertion order taken cyclically.
C1_AnyConsecutiveCalls == InCyclicOrder("lb1")

\* C1, amended: the same for any N consecutive calls between which the
\* counter does not wrap around from MAX_SAFE_INTEGER to 0; and each call
\* selects the server at position (counter mod N), so that a fresh pool
\* returns s1, s2, ..., sN, s1, s2, ...
C1_RoundRobin ==
    /\ NoWrapWithin("lb1") => InCyclicOrder("lb1")
    /\ \A i \in 1..Len(recent["lb1"]) :
        recent["lb1"][i].address
            = servers["lb1"][(recent["lb1"][i].acc % Len(servers["lb1"])) + 1].address

\* Three servers, three consecutive calls, no wraparound between them.
C1_Witness ==
    /\ Len(servers["lb1"]) = 3
    /\ Len(recent["lb1"]) = 3
    /\ NoWrapWithin("lb1")
    /\ recent["lb1"][1].acc > 0

\* The clients a load balancer has created for an address.
CreatedFor(lb, address) ==
    {id \in DOMAIN clients : clients[id].owner = lb /\ clients[id].address = address}

\* C2: within one load balancer at most one client is ever created per
\* address, and every getInstance call that resolves to an address returns
\* that client, whatever getInstance, addServer, removeServer and close calls
\* came before.
C2_IdempotentCaching ==
    /\ \A lb \in LoadBalancers : \A address \in Addr \cup {ForeignAddr} :
        Cardinality(CreatedFor(lb, address)) <= 1
    /\ (result.op = "getInstance" /\ result.ok) =>
        CreatedFor(result.lb, result.address) = {result.ret}

\* A call returns a client that an earlier call created, after a close().
C2_Witness ==
    /\ result.op = "getInstance"
    /\ result.ok
    /\ result.ret < Len(clients)
    /\ clients[result.ret].state = "SHUTDOWN"

\* C3: a fresh load balancer holds no instance; an instance enters the cache
\* of a load balancer only in a getInstance call that selected its address,
\* and nothing but getInstance creates a client.
C3_LazyConnection ==
    /\ clients = <<>>
    /\ \A lb \in LoadBalancers : instances[lb] = <<>>
    /\ [][/\ \A lb \in LoadBalancers : \A address \in DOMAIN instances'[lb] :
                (\/ address \notin DOMAIN instances[lb]
                 \/ instances'[lb][address] # instances[lb][address]) =>
                    /\ result'.op = "getInstance"
                    /\ result'.lb = lb
                    /\ result'.address = address
                    /\ result'.ret = instances'[lb][address]
          /\ Len(clients') # Len(clients) => result'.op = "getInstance"]_vars

\* addServer has added a server that has no instance, next to servers that
\* have one.
C3_Witness ==
    /\ result.op = "addServer"
    /\ result.ok
    /\ result.address \notin DOMAIN instances["lb1"]
    /\ instances["lb1"] # <<>>

\* C4: removeServer(a) leaves the cache and every client as they are, the
\* instance of a included; it takes a out of the server list and keeps the
\* others in order, and a default-strategy getInstance call selects only
\* addresses that are in the server list.
C4_RemoveKeepsInstance ==
    /\ [](result.op = "getInstance" /\ result.ok /\ routeResolver[result.lb] = NoResolver
            => \E i \in 1..Len(servers[result.lb]) :
                    servers[result.lb][i].address = result.address)
    /\ [][result'.op = "removeServer" =>
            /\ instances' = instances
            /\ clients' = clients
            /\ acc' = acc
            /\ servers'[result'.lb] =
                SelectSeq(servers[result'.lb],
                          LAMBDA config : config.address # result'.address)]_vars

\* removeServer has removed a server whose instance is cached and open.
C4_Witness ==
    /\ result.op = "removeServer"
    /\ result.ok
    /\ result.address \in DOMAIN instances["lb1"]
    /\ clients[instances["lb1"][result.address]].state = "IDLE"

\* C5: with a route resolver that is a function of the route params alone,
\* all the getInstance calls made with equal params while the server list
\* stays the same return the same client.
C5_CustomAffinity ==
    \A lb \in LoadBalancers :
        routeResolver[lb] = ParamsResolver =>
            \A p \in Params : Cardinality(affinity[lb][p]) <= 1

\* A call returns the client an earlier call with the same params returned,
\* a call with other params having returned another client in between.
C5_Witness ==
    /\ routeResolver["lb1"] = ParamsResolver
    /\ result.op = "getInstance"
    /\ result.ok
    /\ result.ret < Len(clients)
    /\ affinity["lb1"][result.params] = {result.ret}
    /\ \E p \in Params : affinity["lb1"][p] = {Len(clients)}

\* The name a target that is not a string resolves to.
NameOfObject(target) ==
    IF target.kind = "balancer"
    THEN getServiceFullName(ServiceOf[target.balancer])
    ELSE getServiceFullName(clients[target.client].service)

\* C6: register returns true exactly when nothing is registered under the
\* name of its target, and then stores the target; otherwise it returns
\* false and the registry stays as it is, so that getInstanceOf keeps
\* resolving against the value registered first.
C6_DuplicateRejected ==
    /\ [](result.op = "getInstanceOf" /\ result.ok =>
            LET value == Get(registry, result.name)
            IN  IF value.kind = "client"
                THEN result.ret = value.client
                ELSE value.kind = "balancer" /\ result.lb = value.balancer)
    /\ [][result'.op = "register" =>
            LET name == NameOfObject(result'.target)
            IN  /\ result'.ok = ~Has(registry, name)
                /\ Has(registry, name) => registry' = registry
                /\ ~Has(registry, name) =>
                    /\ Get(registry', name) = result'.target
                    /\ \A other \in {registry[i].name : i \in 1..Len(registry)} :
                        Get(registry', other) = Get(registry, other)]_vars

\* register has refused an object other than the one registered under the
\* name.
C6_Witness ==
    /\ result.op = "register"
    /\ ~result.ok
    /\ Get(registry, result.name) # NoEntry
    /\ Get(registry, result.name) # result.target

\* C7: once deregister has returned true for a name, and until register
\* returns true for it, getInstanceOf for the name throws the
\* not-registered ReferenceError and deregister for it returns false.
C7_AfterDeregister ==
    [][/\ result'.op = "getInstanceOf" /\ result'.name \in deregistered =>
            /\ result'.err = "ReferenceError"
            /\ result'.ret = NoIns
       /\ result'.op = "deregister" /\ result'.name \in deregistered =>
            ~result'.ok]_vars

\* getInstanceOf is called for a deregistered name while another name is
\* registered.
C7_Witness ==
    /\ result.op = "getInstanceOf"
    /\ result.name \in deregistered
    /\ registry # <<>>

\* The name a target resolves to.
NameOfTarget(target) ==
    IF target.kind = "string" THEN target.name ELSE NameOfObject(target)

\* C8: getInstanceOf for a name that is not registered throws a
\* ReferenceError that carries the name, returns nothing, and changes neither
\* the registry nor any load balancer or client.
C8_NotRegistered ==
    [][result'.op = "getInstanceOf" /\ ~Has(registry, NameOfTarget(result'.target)) =>
            /\ result'.err = "ReferenceError"
            /\ result'.errName = NameOfTarget(result'.target)
            /\ result'.ret = NoIns
            /\ ~result'.ok
            /\ registry' = registry
            /\ <<servers, instances, acc, clients>>' = <<servers, instances, acc, clients>>]_vars

\* getInstanceOf has failed for a name while a load balancer that has
\* served calls is registered under another name.
C8_Witness ==
    /\ result.op = "getInstanceOf"
    /\ result.err = "ReferenceError"
    /\ result.target.kind = "string"
    /\ \E i \in 1..Len(registry) : registry[i].value.kind = "balancer"
    /\ acc[ManagedBalancer] > 0

\* C9: whenever the selected address is not falsy and no server of the list
\* has it, getInstance throws the invalid-address error, returns no client
\* and creates none.
C9_InvalidRoute ==
    (/\ result.op = "getInstance"
     /\ ~IsFalsy(result.address)
     /\ \A i \in 1..Len(servers[result.lb]) :
            servers[result.lb][i].address # result.address)
        => /\ result.err = "The resolve server address is invalid"
           /\ result.ret = NoIns

\* The addresses of the server list that the default strategy may select.
HealthyAddresses(lb) ==
    {servers[lb][i].address : i \in
        {j \in 1..Len(servers[lb]) :
            \/ servers[lb][j].address \notin DOMAIN instances[lb]
            \/ clients[instances[lb][servers[lb][j].address]].state
                \notin {"SHUTDOWN", "TRANSIENT_FAILURE"}}}

\* C10: getInstance throws the no-address error exactly when no address was
\* selected: with the default strategy, when no server is left after those
\* with a SHUTDOWN or TRANSIENT_FAILURE instance are taken out; with a route
\* resolver, when it returned a falsy value. The call then creates no client
\* and leaves the cache as it is.
C10_NoAvailableServer ==
    [][result'.op = "getInstance" =>
        /\ (result'.err = "No server address is available") =
            IF routeResolver[result'.lb] = NoResolver
            THEN HealthyAddresses(result'.lb) = {}
            ELSE result'.address \in {Undefined, EmptyString}
        /\ result'.err = "No server address is available" =>
            /\ result'.ret = NoIns
            /\ instances' = instances
            /\ clients' = clients]_vars

\* The default strategy finds no address although the list has servers.
C10_Witness ==
    /\ result.op = "getInstance"
    /\ result.err = "No server address is available"
    /\ routeResolver[result.lb] = NoResolver
    /\ Len(servers[result.lb]) > 0

\* The addresses of the server list, in order, that have no instance or an
\* instance that is neither SHUTDOWN nor TRANSIENT_FAILURE.
UsableAddresses(lb) ==
    SelectSeq(Addresses(servers[lb]),
              LAMBDA address :
                \/ address \notin DOMAIN instances[lb]
                \/ clients[instances[lb][address]].state
                    \notin {"SHUTDOWN", "TRANSIENT_FAILURE"})

\* C11: with the default strategy getInstance never returns a client whose
\* channel is SHUTDOWN or TRANSIENT_FAILURE when the call selects it; a server
\* without an instance is always a candidate: the call selects among the
\* servers that have no instance or a usable one, at position (counter mod
\* their number), and it succeeds whenever some server has no instance.
C11_HealthyCandidates ==
    [][(result'.op = "getInstance" /\ routeResolver[result'.lb] = NoResolver) =>
        LET lb == result'.lb
            usable == UsableAddresses(lb)
        IN  /\ result'.ok =>
                /\ result'.ret \in DOMAIN clients =>
                    clients[result'.ret].state \notin {"SHUTDOWN", "TRANSIENT_FAILURE"}
                /\ clients'[result'.ret].state \notin {"SHUTDOWN", "TRANSIENT_FAILURE"}
                /\ clients'[result'.ret].address = result'.address
                /\ result'.address = usable[(acc[lb] % Len(usable)) + 1]
            /\ (\E i \in 1..Len(servers[lb]) :
                    servers[lb][i].address \notin DOMAIN instances[lb]) => result'.ok]_vars

\* A call returns a client while the instance of one server is SHUTDOWN and
\* that of another is TRANSIENT_FAILURE.
C11_Witness ==
    /\ result.op = "getInstance"
    /\ result.ok
    /\ routeResolver[result.lb] = NoResolver
    /\ \E i, j \in 1..Len(servers[result.lb]) :
        /\ StateOf(result.lb, servers[result.lb][i].address) = "SHUTDOWN"
        /\ StateOf(result.lb, servers[result.lb][j].address) = "TRANSIENT_FAILURE"

\* The addresses of the servers of a list.
AddressSet(configs) == {configs[i].address : i \in 1..Len(configs)}

\* C12 as stated: in every state reachable by getInstance, addServer,
\* removeServer and close, the addresses that have a cached instance are
\* among the addresses of the server list.
C12_CacheWithinServers ==
    \A lb \in LoadBalancers : DOMAIN instances[lb] \subseteq AddressSet(servers[lb])

\* C12, amended: an instance is cached only for an address that is in the
\* server list at that moment, and a cached address leaves the server list
\* only by removeServer of that address, which keeps the cached instance; so
\* the cached addresses are among those of the server list in every state
\* reached without removing a server that has an instance.
C12_CacheWithinServersEver ==
    [][\A lb \in LoadBalancers :
        /\ \A address \in DOMAIN instances'[lb] \ DOMAIN instances[lb] :
            /\ address \in AddressSet(servers[lb])
            /\ address \in AddressSet(servers'[lb])
        /\ DOMAIN instances[lb] \subseteq DOMAIN instances'[lb]
        /\ \A address \in DOMAIN instances[lb] :
            (address \in AddressSet(servers[lb])
                /\ address \notin AddressSet(servers'[lb])) =>
                    /\ result'.op = "removeServer"
                    /\ result'.lb = lb
                    /\ result'.address = address
                    /\ address \in DOMAIN instances'[lb]]_vars

\* A route resolver returns an address that no server has, while the
\* instance of a removed server is still cached.
C12_Witness ==
    /\ result.op = "getInstance"
    /\ result.err = "The resolve server address is invalid"
    /\ \E address \in DOMAIN instances[result.lb] :
        address \notin AddressSet(servers[result.lb])

\* C13: after close() the load balancer can be used again: the getInstance
\* call that follows succeeds and returns a client that is not closed and is
\* none of those close() closed: a new connection to the selected address.
C13_ReusableAfterClose ==
    [][(result.op = "close" /\ result'.op = "getInstance") =>
        /\ result'.ok
        /\ clients'[result'.ret].state # "SHUTDOWN"
        /\ result'.ret \notin Range(result.closed)
        /\ clients'[result'.ret].address = result'.address]_vars

\* The clients in the cache of a load balancer.
CachedClients(lb) == {instances[lb][address] : address \in DOMAIN instances[lb]}

\* C14: close() of a load balancer closes every client in its cache, each
\* once, and nothing else: the other clients, the cache, the server list and
\* the counter stay as they are.
C14_CloseClosesCache ==
    [][result'.op = "close" =>
        LET lb == result'.lb
        IN  /\ Range(result'.closed) = CachedClients(lb)
            /\ Len(result'.closed) = Cardinality(CachedClients(lb))
            /\ DOMAIN clients' = DOMAIN clients
            /\ \A id \in DOMAIN clients :
                IF id \in CachedClients(lb)
                THEN clients'[id] = [clients[id] EXCEPT !.state = "SHUTDOWN"]
                ELSE clients'[id] = clients[id]
            /\ <<servers, instances, acc, registry>>' = <<servers, instances, acc, registry>>]_vars

\* close() has closed the two clients of a load balancer while a client the
\* application connected on its own stays open.
C14_Witness ==
    /\ result.op = "close"
    /\ Len(result.closed) = 2
    /\ \E id \in DOMAIN clients :
        /\ id \notin CachedClients(result.lb)
        /\ clients[id].state # "SHUTDOWN"

\* C15 as stated: a getInstance call that connects to a newly selected
\* address waits for the connection: it ends with a ready connection, or it
\* fails with the connect-timeout error.
C15_GetInstanceTimesOut ==
    [][(result'.op = "getInstance" /\ Len(clients') > Len(clients)) =>
        \/ clients'[result'.ret].state = "READY"
        \/ result'.err = "ConnectTimeout"]_vars

\* C15, amended: getInstance returns the new client at once, its channel
\* IDLE, without waiting for the connection. The connect timeout bounds the
\* wait of a unary or server-streaming call made on the client: the request
\* is sent only once the channel is READY, and a call whose channel does not
\* become ready before the deadline is rejected with the deadline error (or
\* with the closed-channel error) rather than waiting forever.
C15_CallTimesOut ==
    /\ [][(result'.op = "getInstance" /\ Len(clients') > Len(clients)) =>
            /\ result'.ok
            /\ clients'[result'.ret].state = "IDLE"]_vars
    /\ [][\A i \in DOMAIN calls :
            calls[i].pc = "waitForReady" =>
                /\ calls'[i].pc = "sent" => clients[calls[i].client].state = "READY"
                /\ calls'[i].pc = "rejected" =>
                    calls'[i].err \in {DeadlineError, ClosedError}]_vars
    /\ \A i \in 1..MaxCalls :
        (i \in DOMAIN calls /\ calls[i].pc = "waitForReady")
            ~> (i \in DOMAIN calls /\ calls[i].pc \in {"sent", "rejected"})

\* A unary call made on a client of the load balancer was rejected with the
\* deadline error, the channel having failed to connect.
C15_Witness ==
    \E i \in DOMAIN calls :
        /\ calls[i].def = [requestStream |-> FALSE, responseStream |-> FALSE]
        /\ calls[i].pc = "rejected"
        /\ calls[i].err = DeadlineError
        /\ calls[i].client \in CachedClients(CalledBalancer)
        /\ clients[calls[i].client].state = "TRANSIENT_FAILURE"

\* target.lastIndexOf(ch), counted from 1; 0 when ch does not occur.
LastIndexOf(str, ch) ==
    LET at == {i \in 1..Len(str) : str[i] = ch}
    IN  IF at = {} THEN 0 ELSE CHOOSE i \in at : \A j \in at : j <= i

\* C16: a string given to getInstanceOf or deregister is split at its last
\* "."; a string with no ".", with nothing before the last "." or with nothing
\* after it is rejected with a TypeError and the call changes nothing; any
\* other string is accepted, and the part before the ".", a ".", and the part
\* after it make up the name the call resolves.
C16_InvalidServiceName ==
    [][(result'.op \in {"getInstanceOf", "deregister"}
            /\ result'.target.kind = "string") =>
        LET name == result'.target.name
            index == LastIndexOf(name, ".")
        IN  IF index <= 1 \/ index = Len(name)
            THEN /\ result'.err = "TypeError"
                 /\ registry' = registry
                 /\ clients' = clients
            ELSE /\ result'.err # "TypeError"
                 /\ result'.name = SubSeq(name, 1, index - 1) \o <<".">>
                                    \o SubSeq(name, index + 1, Len(name))]_vars

\* The clients a registered value stands for: the cached clients of a load
\* balancer, or the client itself.
ClientsOfValue(value) ==
    IF value.kind = "balancer" THEN CachedClients(value.balancer)
    ELSE IF value.kind = "client" THEN {value.client}
    ELSE {}

\* The entries of the registry other than that of a name, in order.
EntriesBut(entries, name) == SelectSeq(entries, LAMBDA entry : entry.name # name)

\* C17: deregister(target, true) with nothing registered under the resolved
\* name returns false, closes nothing and leaves the registry as it is;
\* otherwise it closes the registered client, or each cached client of the
\* registered load balancer, once, removes the entry and returns true.
\* deregister(target, false) closes nothing, removes the entry if there is
\* one and returns whether there was one. No other entry and no load
\* balancer state is touched.
C17_Deregister ==
    [][result'.op = "deregister" =>
        LET name == NameOfTarget(result'.target)
            value == Get(registry, name)
            closing == result'.closeConnection /\ value # NoEntry
            closed == IF closing THEN ClientsOfValue(value) ELSE {}
        IN  /\ result'.name = name
            /\ result'.ok = (value # NoEntry)
            /\ Range(result'.closed) = closed
            /\ Len(result'.closed) = Cardinality(closed)
            /\ DOMAIN clients' = DOMAIN clients
            /\ \A id \in DOMAIN clients :
                IF id \in closed
                THEN clients'[id] = [clients[id] EXCEPT !.state = "SHUTDOWN"]
                ELSE clients'[id] = clients[id]
            /\ registry' = EntriesBut(registry, name)
            /\ value = NoEntry => registry' = registry
            /\ <<servers, instances, acc>>' = <<servers, instances, acc>>]_vars

\* deregister(name, true) has closed the two cached clients of the load
\* balancer registered under the name while a registered plain client stays
\* registered and open.
C17_Witness ==
    /\ result.op = "deregister"
    /\ result.target.kind = "string"
    /\ result.closeConnection
    /\ result.ok
    /\ Len(result.closed) = 2
    /\ \E i \in 1..Len(registry) :
        /\ registry[i].value.kind = "client"
        /\ clients[registry[i].value.client].state # "SHUTDOWN"

\* The clients that the values of the registry stand for.
RegisteredClients ==
    UNION {ClientsOfValue(registry[i].value) : i \in 1..Len(registry)}

\* C18: close() of the manager closes every registered value, a client or
\* the cached clients of a load balancer, and nothing else, and leaves the
\* registry as it is: right after it, register for a registered name still
\* returns false and getInstanceOf for it does not throw the not-registered
\* ReferenceError.
C18_ManagerCloseKeepsRegistry ==
    /\ [][result'.op = "managerClose" =>
            /\ Range(result'.closed) = RegisteredClients
            /\ Len(result'.closed) = Cardinality(RegisteredClients)
            /\ DOMAIN clients' = DOMAIN clients
            /\ \A id \in DOMAIN clients :
                IF id \in RegisteredClients
                THEN clients'[id] = [clients[id] EXCEPT !.state = "SHUTDOWN"]
                ELSE clients'[id] = clients[id]
            /\ registry' = registry
            /\ <<servers, instances, acc>>' = <<servers, instances, acc>>]_vars
    /\ [][result.op = "managerClose" =>
            \A i \in 1..Len(registry) :
                /\ (result'.op = "register" /\ result'.name = registry[i].name)
                    => ~result'.ok
                /\ (result'.op = "getInstanceOf"
                        /\ NameOfTarget(result'.target) = registry[i].name)
                    => result'.err # "ReferenceError"]_vars

\* close() of the manager has closed a registered client and the two cached
\* clients of the registered load balancer, and both names stay registered.
C18_Witness ==
    /\ result.op = "managerClose"
    /\ Len(registry) = 2
    /\ Len(result.closed) = 3
    /\ \A id \in Range(result.closed) : clients[id].state = "SHUTDOWN"

\* C19: when the value registered under a name is a plain client, every
\* getInstanceOf for the name returns that client, whatever the route params
\* and whatever kind of target gave the name, and the call changes neither
\* the registry nor any load balancer or client.
C19_PlainClientReturned ==
    [][(result'.op = "getInstanceOf"
            /\ Get(registry, NameOfTarget(result'.target)).kind = "client") =>
        /\ result'.ok
        /\ result'.err = ""
        /\ result'.ret = Get(registry, NameOfTarget(result'.target)).client
        /\ registry' = registry
        /\ <<servers, instances, acc, clients>>' = <<servers, instances, acc, clients>>]_vars

\* getInstanceOf(balancer, "X") has returned the plain client registered
\* under the name of the load balancer's service, the load balancer having
\* served calls of its own.
C19_Witness ==
    /\ result.op = "getInstanceOf"
    /\ result.params = "X"
    /\ result.target.kind = "balancer"
    /\ result.ok
    /\ Get(registry, result.name) = ClientTarget(result.ret)
    /\ acc[ManagedBalancer] > 0

\* What one call of the default strategy on a load balancer does, told from
\* the state before it: it selects among the usable servers by the counter,
\* advances the counter, and returns the cached client of the selected
\* address or a new one, which it caches.
PoolCallEffect(lb) ==
    LET usable == UsableAddresses(lb)
        selected == IF usable = <<>> THEN Undefined
                    ELSE usable[(acc[lb] % Len(usable)) + 1]
    IN  /\ result'.lb = lb
        /\ result'.acc = acc[lb]
        /\ acc' = [acc EXCEPT ![lb] = IF acc[lb] = MAX_SAFE_INTEGER THEN 0 ELSE acc[lb] + 1]
        /\ result'.address = selected
        /\ servers' = servers
        /\ registry' = registry
        /\ IF selected = Undefined
           THEN /\ ~result'.ok
                /\ result'.err = "No server address is available"
                /\ instances' = instances
                /\ clients' = clients
           ELSE IF selected \in DOMAIN instances[lb]
           THEN /\ result'.ok
                /\ result'.ret = instances[lb][selected]
                /\ instances' = instances
                /\ clients' = clients
           ELSE /\ result'.ok
                /\ result'.ret = Len(clients) + 1
                /\ Len(clients') = Len(clients) + 1
                /\ SubSeq(clients', 1, Len(clients)) = clients
                /\ clients'[result'.ret].address = selected
                /\ clients'[result'.ret].state = "IDLE"
                /\ DOMAIN instances'[lb] = DOMAIN instances[lb] \cup {selected}
                /\ instances'[lb][selected] = result'.ret
                /\ \A address \in DOMAIN instances[lb] :
                    instances'[lb][address] = instances[lb][address]
                /\ \A other \in LoadBalancers \ {lb} :
                    instances'[other] = instances[other]

\* The last call was a call on a load balancer that returned a client.
PoolCallDone(res) ==
    /\ res.op \in {"getInstance", "getInstanceOf"}
    /\ res.lb \in LoadBalancers
    /\ res.ok

\* C20: when the value registered under a name is a load balancer,
\* getInstanceOf, with the load balancer or a string as the target, does what
\* getInstance of that load balancer does: the same client returned, the same
\* effect on the counter and the cache. Calls through the manager and direct
\* calls advance one round-robin sequence: of two calls in a row, of either
\* kind, the second reads the counter the first left and selects the next
\* server (the first lookup server 1, the next server 2).
C20_DelegatesToBalancer ==
    /\ [][/\ result'.op = "getInstance" => PoolCallEffect(result'.lb)
          /\ (result'.op = "getInstanceOf"
                /\ Get(registry, NameOfTarget(result'.target)).kind = "balancer") =>
                PoolCallEffect(Get(registry, NameOfTarget(result'.target)).balancer)]_vars
    /\ [][(/\ PoolCallDone(result) /\ PoolCallDone(result')
           /\ result'.lb = result.lb
           /\ result.acc # MAX_SAFE_INTEGER
           /\ AllHealthy(servers[result.lb], instances[result.lb], clients)) =>
            /\ result'.acc = result.acc + 1
            /\ PositionOf(servers[result.lb], result'.address)
                = (PositionOf(servers[result.lb], result.address)
                    % Len(servers[result.lb])) + 1]_vars

\* The second call on a fresh load balancer, made through the manager by
\* name, has returned the client of server 2.
C20_Witness ==
    /\ result.op = "getInstanceOf"
    /\ result.target.kind = "string"
    /\ result.ok
    /\ result.lb = ManagedBalancer
    /\ result.acc = 1
    /\ result.address = servers[ManagedBalancer][2].address
    /\ instances[ManagedBalancer][result.address] = result.ret

\* The node reached from the node `id` by reading the properties `props` one
\* after the other, 0 when one of them has not been read.
RECURSIVE Walk(_, _)
Walk(id, props) ==
    IF props = <<>> \/ id = 0 THEN id
    ELSE IF Head(props) \in DOMAIN nodes[id].children
    THEN Walk(nodes[id].children[Head(props)], Tail(props))
    ELSE 0

\* The names of a path joined by ".".
RECURSIVE Dotted(_)
Dotted(props) ==
    IF Len(props) <= 1 THEN props
    ELSE <<Head(props), ".">> \o Dotted(Tail(props))

\* The paths an application can have walked from the root.
PropPaths == UNION {[1..n -> {"a", "G"}] : n \in 1..(MaxNodes - 1)}

\* What getInstanceOf(name, p) of the manager of service proxies does, told
\* from the state before it: a name without a "." inside it is a TypeError,
\* a name that is not registered a ReferenceError naming it, both changing
\* nothing; otherwise it is one call of the registered pool.
NamedLookupEffect(name, p) ==
    LET dot == LastIndexOf(name, ".")
    IN  /\ result'.params = p
        /\ registry' = registry
        /\ IF dot < 2 \/ dot = Len(name)
           THEN /\ result'.err = "TypeError"
                /\ ~result'.ok
                /\ UNCHANGED <<servers, instances, acc, clients>>
           ELSE IF \A i \in 1..Len(registry) : registry[i].name # name
           THEN /\ result'.err = "ReferenceError"
                /\ result'.errName = name
                /\ ~result'.ok
                /\ UNCHANGED <<servers, instances, acc, clients>>
           ELSE \E i \in 1..Len(registry) :
                    /\ registry[i].name = name
                    /\ PoolCallEffect(registry[i].value.balancer)

\* C21: with the manager of service proxies and a root of the empty
\* namespace, calling the node reached by root.a.G (or by any other path)
\* with p does what getInstanceOf of the dotted path with p does: the same
\* client returned, the same change of the counter and the cache, the same
\* error.
C21_CallResolvesService ==
    [][/\ (result'.op = "getInstanceOf" /\ result'.target.kind = "string")
            => NamedLookupEffect(result'.target.name, result'.params)
       /\ \A props \in PropPaths :
            (result'.op = "invoke" /\ result'.node = Walk(1, props))
                => NamedLookupEffect(Dotted(props), result'.params)]_vars

C21_Witness ==
    /\ result.op = "invoke"
    /\ result.node = Walk(1, <<"a", "G">>)
    /\ result.ok
    /\ result.ret \in DOMAIN clients
    /\ result.params = "X"
    /\ acc[ManagedBalancer] = 2

\* The properties read from the root to reach a node, in order.
RECURSIVE PathTo(_)
PathTo(id) ==
    IF id = 1 THEN <<>>
    ELSE LET parent == CHOOSE p \in DOMAIN nodes :
                            \E prop \in DOMAIN nodes[p].children :
                                nodes[p].children[prop] = id
             prop == CHOOSE prop \in DOMAIN nodes[parent].children :
                            nodes[parent].children[prop] = id
         IN  Append(PathTo(parent), prop)

\* The segments of the path of a node: the root namespace, if there is one,
\* and the properties read from the root.
Segments(id) == (IF nodes[1].target = <<>> THEN <<>> ELSE <<nodes[1].target[1]>>) \o PathTo(id)

Front(seq) == SubSeq(seq, 1, Len(seq) - 1)

\* The client getInstanceOf(name, d) returns in the state before the call,
\* the registered value being a client or a load balancer of the default
\* strategy with a usable server: the client, the cached client of the
\* address next in turn, or a new one.
InstanceOfName(name) ==
    LET value == (CHOOSE i \in 1..Len(registry) : registry[i].name = name)
        entry == registry[value].value
        usable == UsableAddresses(entry.balancer)
        selected == usable[(acc[entry.balancer] % Len(usable)) + 1]
    IN  IF entry.kind = "client" THEN entry.client
        ELSE IF selected \in DOMAIN instances[entry.balancer]
        THEN instances[entry.balancer][selected]
        ELSE Len(clients) + 1

\* C22: calling the node at the path ns.Service.method with d, the path
\* being the root namespace and the properties read, resolves ns.Service in
\* the registry with d as the route params: a ReferenceError naming it when
\* it is not registered; otherwise the method of that name of the resolved
\* instance is called with d and the instance's call is what the node
\* returns, or a TypeError is thrown when the service of the instance has no
\* such method. The registry and the nodes stay as they are.
C22_MethodCall ==
    [][(result'.op = "invoke" /\ Len(Segments(result'.node)) >= 2) =>
        LET segments == Segments(result'.node)
            service == Dotted(Front(segments))
            method == segments[Len(segments)]
        IN  /\ result'.params \in Params
            /\ registry' = registry
            /\ nodes' = nodes
            /\ IF \A i \in 1..Len(registry) : registry[i].name # service
               THEN /\ result'.err = "ReferenceError"
                    /\ result'.errName = service
                    /\ UNCHANGED <<clients, instances, acc, calls>>
               ELSE LET ins == InstanceOfName(service)
                    IN  /\ ins \in DOMAIN clients'
                        /\ IF \E i \in 1..Len(clients'[ins].service.service) :
                                clients'[ins].service.service[i].name = method
                           THEN /\ result'.ok
                                /\ result'.ret = ins
                                /\ Len(calls') = Len(calls) + 1
                                /\ calls'[Len(calls')].client = ins
                                /\ calls'[Len(calls')].method = method
                                /\ calls'[Len(calls')].data = result'.params
                           ELSE /\ result'.err = "TypeError"
                                /\ ~result'.ok
                                /\ calls' = calls]_vars

C22_Witness ==
    /\ result.op = "invoke"
    /\ nodes[1].target = <<"a">>
    /\ PathTo(result.node) = <<"G", "m">>
    /\ result.ok
    /\ result.lb = ManagedBalancer
    /\ result.params = "X"
    /\ calls # <<>>
    /\ calls[Len(calls)].data = "X"

\* C23: reading a property that is a member of the node returns the member
\* and makes no node. Reading any other name returns a child whose path is
\* the node's path, a "." and the name, or the name alone under the empty
\* path; the child is kept under that name, a name read before returns the
\* child kept for it and makes no node, and no other node changes.
C23_MemoizedNodes ==
    [][result'.op = "get" =>
        LET id == result'.node
            prop == result'.prop
        IN  IF prop \in {"__target", "__manager", "__children"}
            THEN /\ result'.member = prop
                 /\ result'.child = 0
                 /\ nodes' = nodes
            ELSE /\ result'.child \in DOMAIN nodes'
                 /\ result'.member = ""
                 /\ nodes'[result'.child].target =
                        IF nodes[id].target = <<>> THEN <<prop>>
                        ELSE nodes[id].target \o <<".", prop>>
                 /\ prop \in DOMAIN nodes'[id].children
                 /\ nodes'[id].children[prop] = result'.child
                 /\ IF prop \in DOMAIN nodes[id].children
                    THEN /\ result'.child = nodes[id].children[prop]
                         /\ nodes' = nodes
                    ELSE /\ result'.child = Len(nodes) + 1
                         /\ Len(nodes') = Len(nodes) + 1
                         /\ \A other \in DOMAIN nodes :
                              /\ nodes'[other].target = nodes[other].target
                              /\ \A name \in DOMAIN nodes[other].children :
                                   /\ name \in DOMAIN nodes'[other].children
                                   /\ nodes'[other].children[name] =
                                        nodes[other].children[name]]_vars

\* A second read of G on the root of the namespace a, after another node was
\* made, has returned the child of the first read.
C23_Witness ==
    /\ result.op = "get"
    /\ result.node = 1
    /\ result.prop = "G"
    /\ nodes[1].target = <<"a">>
    /\ result.child = 2
    /\ Len(nodes) = 3
    /\ nodes[2].target = <<"a", ".", "G">>

\* C24: a call of a node looks its service name, the path less its last
\* segment, up in the registry as it is at the call, whatever earlier calls
\* of the node did and whenever the node was made: it throws the
\* ReferenceError of an unregistered service exactly when the name is not
\* registered then, and with the name registered a call of the method m
\* succeeds.
C24_NoCachedResolution ==
    [][result'.op = "invoke" =>
        LET segments == Segments(result'.node)
            service == Dotted(Front(segments))
            registered == \E i \in 1..Len(registry) : registry[i].name = service
        IN  /\ (result'.err = "ReferenceError") <=> ~registered
            /\ ~registered => ~result'.ok /\ result'.errName = service
            /\ (registered /\ segments[Len(segments)] = "m") => result'.ok]_vars

\* The node a.G.m was called with success, the service was deregistered, and
\* a call of the node has thrown the ReferenceError.
C24_Witness ==
    /\ result.op = "invoke"
    /\ result.err = "ReferenceError"
    /\ result.name = <<"a", ".", "G">>
    /\ result.method = <<"m">>
    /\ calls # <<>>
    /\ calls[1].method = "m"
    /\ registry = <<>>

\* The tasks whose call has run.
DoneTasks == {i \in DOMAIN calls : calls[i].pc = "done"}

\* C25: whatever the order in which the pending callers of a load balancer
\* of the default strategy run, no two of at most MAX_SAFE_INTEGER + 1 calls
\* read the same counter: the K calls that have run read the K values that
\* lead to the present counter, one each, and of two calls that read n and
\* n + 1 the second selects the server next in the list after that of the
\* first, cyclically.
C25_AtomicGetInstance ==
    LET done == DoneTasks
        K == Cardinality(done)
        n == Len(servers[TaskBalancer])
    IN  /\ \A i, j \in done : i # j => calls[i].acc # calls[j].acc
        /\ {calls[i].acc : i \in done}
            = {(acc[TaskBalancer] + (MAX_SAFE_INTEGER + 1) - k) % (MAX_SAFE_INTEGER + 1) :
                    k \in 1..K}
        /\ \A i, j \in done :
            calls[j].acc = calls[i].acc + 1 =>
                PositionOf(servers[TaskBalancer], calls[j].address)
                    = (PositionOf(servers[TaskBalancer], calls[i].address) % n) + 1

\* Three callers were scheduled and ran in another order than that, the
\* counter wrapping around between two of them.
C25_Witness ==
    /\ Len(calls) = 3
    /\ DoneTasks = {1, 2, 3}
    /\ calls[3].acc = MAX_SAFE_INTEGER
    /\ calls[1].acc = 0
    /\ calls[2].acc = 1

\* C26: the original function of a method, whatever the kind of the method,
\* is called only on a client whose channel is READY at that moment: no call
\* is started on a connection that has not been reported ready.
C26_EveryMethodWaits ==
    [][\A i \in DOMAIN calls' :
        (calls'[i].pc = "sent" /\ (i \notin DOMAIN calls \/ calls[i].pc # "sent"))
            => clients[calls'[i].client].state = "READY"]_vars

\* C27: once the callback of a client-streaming call has fired, every
\* promise that returns() has returned is settled, none is left pending, and
\* all are settled alike: with the reply, or with the error; this holds for
\* a promise returned before the callback and for one returned after it,
\* and for each of several. returns() leaves the request stream ended.
C27_ReturnsSettles ==
    /\ \A i \in DOMAIN calls :
        ("fired" \in DOMAIN calls[i] /\ calls[i].fired) =>
            \E outcome \in {"reply", "error"} :
                \A k \in DOMAIN calls[i].promises : calls[i].promises[k] = outcome
    /\ \A i \in DOMAIN calls :
        ("promises" \in DOMAIN calls[i] /\ calls[i].promises # <<>>) => calls[i].ended

\* The address of the server that was added last.
LastAddress(lb) == servers[lb][Len(servers[lb])].address

\* With every server of the load balancer healthy, a call selects the last
\* of the M servers exactly when the counter it reads is M - 1 modulo M; and
\* so does the call that comes right after the addServer that added it.
LastSelectedByCounter ==
    [][(/\ result'.op = "getInstance"
        /\ servers["lb1"] # <<>>
        /\ AllHealthy(servers["lb1"], instances["lb1"], clients)) =>
            LET M == Len(servers["lb1"])
            IN  /\ (result'.address = LastAddress("lb1")) <=> (result'.acc % M = M - 1)
                /\ (result.op = "addServer" /\ result.ok) =>
                    ((result'.address = result.address) <=> (result'.acc % M = M - 1))]_vars

\* C28 as stated: with all servers healthy a server is a candidate as soon
\* as addServer has added it, selected exactly by the calls whose counter is
\* M - 1 modulo M, the M servers counted after the insertion, and hence by
\* one of any M calls in a row.
C28_AddedServerWithinM ==
    /\ LastSelectedByCounter
    /\ [](Len(recent["lb1"]) = Len(servers["lb1"]) /\ servers["lb1"] # <<>>
            => \E i \in 1..Len(recent["lb1"]) :
                    recent["lb1"][i].address = LastAddress("lb1"))

\* C28, amended: the same, the added server being selected by one of any M
\* calls in a row between which the counter does not wrap around from
\* MAX_SAFE_INTEGER to 0.
C28_AddedServerIsCandidate ==
    /\ LastSelectedByCounter
    /\ [](/\ Len(recent["lb1"]) = Len(servers["lb1"])
           /\ servers["lb1"] # <<>>
           /\ NoWrapWithin("lb1")
            => \E i \in 1..Len(recent["lb1"]) :
                    recent["lb1"][i].address = LastAddress("lb1"))

\* s1 was removed and added again, and the first call after that, reading a
\* counter that is 2 modulo 3, has selected it.
C28_Witness ==
    /\ Addresses(servers["lb1"]) = <<"s2", "s3", "s1">>
    /\ result.op = "getInstance"
    /\ result.address = "s1"
    /\ result.acc % 3 = 2
    /\ Len(recent["lb1"]) = 1

\* C29: a getInstance call of a load balancer without a route resolver does
\* with its route params what it would do, in the same state, with any
\* other: the same address selected, the same client returned or the same
\* error thrown, the same counter, cache and clients after it.
C29_ParamsHaveNoEffect ==
    [][(result'.op = "getInstance" /\ routeResolver[result'.lb] = NoResolver) =>
        \A q \in Params :
            LET lb == result'.lb
                other == getInstance(lb, q, Undefined)
            IN  /\ result'.address = other.address
                /\ result'.ret = other.ret
                /\ result'.err = other.err
                /\ acc'[lb] = other.acc
                /\ clients' = clients \o other.created
                /\ instances'[lb] =
                    IF other.created # <<>>
                    THEN (other.address :> other.ret) @@ instances[lb]
                    ELSE instances[lb]
                /\ servers' = servers]_vars

\* A call with params other than null, on a load balancer without a route
\* resolver, has selected the second server and created its client.
C29_Witness ==
    /\ result.op = "getInstance"
    /\ routeResolver[result.lb] = NoResolver
    /\ result.params = "X"
    /\ result.ok
    /\ result.acc = 1
    /\ result.address = servers[result.lb][2].address
    /\ result.ret = Len(clients)

\* C30: every getInstance call, with or without a route resolver, returning
\* a client or throwing the no-address or the invalid-address error, leaves
\* the counter of its load balancer one above the counter it read, or at 0
\* when it read MAX_SAFE_INTEGER; addServer, removeServer and close leave
\* the counter as it is; and the counter goes down in no other step than
\* that from MAX_SAFE_INTEGER to 0.
C30_CounterAdvances ==
    [][/\ result'.op = "getInstance" =>
            /\ result'.acc = acc[result'.lb]
            /\ acc'[result'.lb] =
                IF acc[result'.lb] = MAX_SAFE_INTEGER THEN 0 ELSE acc[result'.lb] + 1
            /\ \A lb \in LoadBalancers \ {result'.lb} : acc'[lb] = acc[lb]
       /\ result'.op \in {"addServer", "removeServer", "close"} => acc' = acc
       /\ \A lb \in LoadBalancers :
            acc'[lb] < acc[lb] => (acc[lb] = MAX_SAFE_INTEGER /\ acc'[lb] = 0)]_vars

\* A call with a route resolver has thrown the invalid-address error and
\* advanced the counter.
C30_Witness ==
    /\ result.op = "getInstance"
    /\ routeResolver[result.lb] # NoResolver
    /\ result.err = "The resolve server address is invalid"
    /\ result.acc = 2
    /\ acc[result.lb] = 3

\* C31: the counter of every load balancer is between 0 and
\* MAX_SAFE_INTEGER in every state; the call that reads MAX_SAFE_INTEGER
\* selects with that value, the candidate at MAX_SAFE_INTEGER modulo their
\* number, or hands that value to the route resolver, and leaves the
\* counter at 0.
C31_CounterWraparound ==
    /\ [](\A lb \in LoadBalancers : acc[lb] \in 0..MAX_SAFE_INTEGER)
    /\ [][(result'.op = "getInstance" /\ acc[result'.lb] = MAX_SAFE_INTEGER) =>
            LET lb == result'.lb
                usable == UsableAddresses(lb)
            IN  /\ acc'[lb] = 0
                /\ result'.acc = MAX_SAFE_INTEGER
                /\ IF routeResolver[lb] = NoResolver
                   THEN usable # <<>> =>
                        result'.address = usable[(MAX_SAFE_INTEGER % Len(usable)) + 1]
                   ELSE result'.ctx.acc = MAX_SAFE_INTEGER]_vars

\* A call with a route resolver has read MAX_SAFE_INTEGER and returned a
\* client, the counter being 0 after it.
C31_Witness ==
    /\ result.op = "getInstance"
    /\ routeResolver[result.lb] # NoResolver
    /\ result.acc = MAX_SAFE_INTEGER
    /\ result.ctx.acc = MAX_SAFE_INTEGER
    /\ result.ok
    /\ acc[result.lb] = 0

\* C32: no two servers of a load balancer have the same address. addServer
\* returns true and puts the server at the end of the list when no server
\* has its address, and otherwise returns false and leaves the list as it
\* is; removeServer returns true and takes the server of the address out,
\* the others keeping their order, when there is one, and otherwise returns
\* false and leaves the list as it is.
C32_DistinctAddresses ==
    /\ [](\A lb \in LoadBalancers : \A i, j \in 1..Len(servers[lb]) :
            servers[lb][i].address = servers[lb][j].address => i = j)
    /\ [][result'.op = "addServer" =>
            LET lb == result'.lb
                present == \E i \in 1..Len(servers[lb]) :
                                servers[lb][i].address = result'.address
            IN  /\ result'.ok = ~present
                /\ present => servers' = servers
                /\ ~present =>
                    /\ Len(servers'[lb]) = Len(servers[lb]) + 1
                    /\ SubSeq(servers'[lb], 1, Len(servers[lb])) = servers[lb]
                    /\ servers'[lb][Len(servers'[lb])].address = result'.address]_vars
    /\ [][result'.op = "removeServer" =>
            LET lb == result'.lb
                present == \E i \in 1..Len(servers[lb]) :
                                servers[lb][i].address = result'.address
            IN  /\ result'.ok = present
                /\ ~present => servers' = servers
                /\ \A i \in 1..Len(servers'[lb]) :
                        servers'[lb][i].address # result'.address
                /\ servers'[lb] = SelectSeq(servers[lb],
                        LAMBDA config : \E i \in 1..Len(servers'[lb]) :
                                            servers'[lb][i] = config)
                /\ Len(servers'[lb]) = Len(servers[lb]) - (IF present THEN 1 ELSE 0)]_vars

\* s1 was removed and added again, and an addServer for an address of the
\* list has returned false.
C32_Witness ==
    /\ result.op = "addServer"
    /\ ~result.ok
    /\ Addresses(servers["lb1"]) = <<"s2", "s3", "s1">>

\* C33: the server list of a load balancer changes in no step but an
\* addServer or a removeServer that returns true: getInstance, returning or
\* throwing, close() and the changes of state of a client's channel leave it
\* as it is, so no server leaves the list because its client is unhealthy.
C33_ListChangedByAddRemoveOnly ==
    [][/\ servers' # servers =>
            /\ result'.op \in {"addServer", "removeServer"}
            /\ result'.ok
            /\ \A lb \in LoadBalancers \ {result'.lb} : servers'[lb] = servers[lb]
       /\ result'.op \in {"getInstance", "close", "none"} => servers' = servers]_vars

\* Every server of the list has a failed or closed client, a call has found
\* no address, and the list still has its three servers.
C33_Witness ==
    /\ result.op = "getInstance"
    /\ result.err = "No server address is available"
    /\ Len(servers["lb1"]) = 3
    /\ \A i \in 1..3 :
        /\ servers["lb1"][i].address \in DOMAIN instances["lb1"]
        /\ clients[instances["lb1"][servers["lb1"][i].address]].state
                \in {"SHUTDOWN", "TRANSIENT_FAILURE"}

\* C34: the context a route resolver is called with lists the servers of
\* the load balancer as they are at the call, in their order, each with the
\* state IDLE when no client is cached for its address and else with the
\* state of the channel of the cached client; its params are the route
\* params of the call and its acc is the counter before the call advances
\* it.
C34_ResolverContext ==
    [][(result'.op = "getInstance" /\ routeResolver[result'.lb] # NoResolver) =>
        LET lb == result'.lb
            ctx == result'.ctx
        IN  /\ Len(ctx.servers) = Len(servers[lb])
            /\ \A i \in 1..Len(servers[lb]) :
                /\ ctx.servers[i].address = servers[lb][i].address
                /\ ctx.servers[i].credentials = servers[lb][i].credentials
                /\ ctx.servers[i].state =
                    IF servers[lb][i].address \in DOMAIN instances[lb]
                    THEN clients[instances[lb][servers[lb][i].address]].state
                    ELSE "IDLE"
            /\ ctx.params = result'.params
            /\ ctx.acc = acc[lb]
            /\ acc'[lb] # ctx.acc]_vars

\* A route resolver was given a list with a server that has no client and
\* a server whose client is closed or has failed, with params other than
\* null and a counter other than 0.
C34_Witness ==
    /\ result.op = "getInstance"
    /\ routeResolver[result.lb] # NoResolver
    /\ result.ctx.params = "X"
    /\ result.ctx.acc > 0
    /\ \E i, j \in 1..Len(result.ctx.servers) :
        /\ result.ctx.servers[i].state \in {"SHUTDOWN", "TRANSIENT_FAILURE"}
        /\ result.ctx.servers[j].state = "IDLE"
        /\ result.ctx.servers[j].address \notin DOMAIN instances[result.lb]

\* C35: when the route resolver of a load balancer returns an address whose
\* cached client is SHUTDOWN or in TRANSIENT_FAILURE, getInstance returns
\* that client: it throws nothing, creates no client and leaves the cache
\* and the state of the client as they are.
C35_NoHealthFilterWithResolver ==
    [][(/\ result'.op = "getInstance"
        /\ routeResolver[result'.lb] # NoResolver
        /\ result'.address \in DOMAIN instances[result'.lb]
        /\ clients[instances[result'.lb][result'.address]].state
                \in {"SHUTDOWN", "TRANSIENT_FAILURE"}) =>
            /\ result'.ok
            /\ result'.err = ""
            /\ result'.ret = instances[result'.lb][result'.address]
            /\ clients' = clients
            /\ instances' = instances]_vars

\* A route resolver has selected a server of the list whose client was
\* closed, and the call has returned that client.
C35_Witness ==
    /\ result.op = "getInstance"
    /\ routeResolver[result.lb] # NoResolver
    /\ result.ok
    /\ clients[result.ret].state = "SHUTDOWN"
    /\ \E i \in 1..Len(servers[result.lb]) :
        servers[result.lb][i].address = result.address
    /\ Len(clients) = 2

\* C36: the promise of a unary call is settled once and no more. When the
\* wait for the channel fails, it is rejected with the error of the wait,
\* the deadline error or the closed-channel error, and the original function
\* is never called; otherwise the original function is called once, and the
\* promise is resolved with its reply or rejected with its error. A call
\* does not stay pending.
C36_UnarySettlesOnce ==
    /\ [](\A i \in DOMAIN calls :
            LET call == calls[i]
            IN  /\ Len(call.settled) <= 1
                /\ call.invoked <= 1
                /\ call.pc = "waitForReady" => call.invoked = 0 /\ call.settled = <<>>
                /\ call.pc = "rejected" =>
                    /\ call.invoked = 0
                    /\ Len(call.settled) = 1
                    /\ call.settled[1].by = "reject"
                    /\ call.settled[1].with \in {DeadlineError, ClosedError}
                /\ call.pc = "sent" => call.invoked = 1 /\ call.settled = <<>>
                /\ call.pc = "called back" =>
                    /\ call.invoked = 1
                    /\ call.settled \in {<<[by |-> "resolve", with |-> "reply"]>>,
                                         <<[by |-> "reject", with |-> "error"]>>})
    /\ [][\A i \in DOMAIN calls :
            calls[i].settled # <<>> => calls'[i] = calls[i]]_vars
    /\ \A i \in 1..MaxCalls :
        (i \in DOMAIN calls) ~> (i \in DOMAIN calls /\ Len(calls[i].settled) = 1)

\* A call waited on a channel that was closed: its promise was rejected
\* with the closed-channel error and the original function was not called.
C36_Witness ==
    \E i \in DOMAIN calls :
        /\ calls[i].pc = "rejected"
        /\ calls[i].settled = <<[by |-> "reject", with |-> ClosedError]>>
        /\ calls[i].invoked = 0
        /\ clients[calls[i].client].state = "SHUTDOWN"

\* C37: once the function serve() registered for a unary or
\* client-streaming method has run to its end for a call, the callback of
\* the call has been called once: with (null, result) when the
\* implementation returned or resolved, with (err, undefined) when it threw
\* or rejected; and it is never called twice.
C37_CallbackOnce ==
    \A i \in DOMAIN calls :
        ~calls[i].responseStream =>
            /\ Len(calls[i].callbacks) <= 1
            /\ calls[i].pc \in {"done", "thrown"} =>
                calls[i].callbacks =
                    IF calls[i].behaviour \in {"returns", "resolves"}
                    THEN <<[err |-> "null", result |-> "result"]>>
                    ELSE <<[err |-> "err", result |-> "undefined"]>>

\* C38: once the function serve() registered for a server-streaming or
\* duplex method with a generator implementation has run to its end for a
\* call, the values the generator yielded have been written to the stream
\* in their order and the stream has been ended once, whether the generator
\* returned or threw; nothing is written after the end.
C38_StreamEndedOnce ==
    \A i \in DOMAIN calls :
        calls[i].responseStream =>
            /\ calls[i].ended <= 1
            /\ calls[i].written =
                    SubSeq(calls[i].generator.values, 1, Len(calls[i].written))
            /\ calls[i].ended = 1 => calls[i].written = calls[i].generator.values
            /\ calls[i].pc \in {"done", "thrown"} =>
                /\ calls[i].written = calls[i].generator.values
                /\ calls[i].ended = 1

\* C39: a cached client outlives the configuration it was created from. A
\* getInstance call that selects an address with a cached client returns
\* that client, creates no client and leaves the cache as it is, whatever
\* configuration the address has by then; and a load balancer never has two
\* clients for one address.
C39_CacheOutlivesDescriptor ==
    /\ \A i, j \in DOMAIN clients :
        (clients[i].owner = clients[j].owner /\ clients[i].address = clients[j].address)
            => i = j
    /\ [][(/\ result'.op = "getInstance"
           /\ result'.address \in DOMAIN instances[result'.lb]) =>
            /\ result'.ok
            /\ result'.ret = instances[result'.lb][result'.address]
            /\ clients' = clients
            /\ instances' = instances]_vars

\* The server of a cached client was removed and added again with other
\* credentials, and a later getInstance call has returned the client of the
\* first configuration.
C39_Witness ==
    /\ result.op = "getInstance"
    /\ result.ok
    /\ result.address = ReplacementServer.address
    /\ ReplacementServer \in Range(servers[result.lb])
    /\ clients[result.ret].credentials = MovingServer.credentials
    /\ clients[result.ret].credentials # ReplacementServer.credentials

\* C40: deregister finds the entry by the name of the target alone. When the
\* target is a load balancer or a client that is not the value registered
\* under its name, deregister removes the entry of the registered value and
\* returns true; with closeConnection it closes the registered value, the
\* client or each cached client of the load balancer, and not the target,
\* whose clients stay as they are.
C40_DeregisterByNameOnly ==
    [][LET name == NameOfTarget(result'.target)
           value == Get(registry, name)
           closed == IF result'.closeConnection THEN ClientsOfValue(value) ELSE {}
       IN  (/\ result'.op = "deregister"
            /\ result'.target.kind \in {"balancer", "client"}
            /\ value # NoEntry
            /\ value # result'.target) =>
                /\ result'.ok
                /\ ~Has(registry', name)
                /\ registry' = EntriesBut(registry, name)
                /\ Range(result'.closed) = closed
                /\ \A id \in closed : clients'[id].state = "SHUTDOWN"
                /\ \A id \in DOMAIN clients \ closed : clients'[id] = clients[id]
                /\ ClientsOfValue(result'.target) \cap closed = {}]_vars

\* deregister(client, true) of a client that was never registered has closed
\* the two cached clients of the load balancer registered under the name of
\* its service and removed the entry, and the client itself is still open.
C40_Witness ==
    /\ result.op = "deregister"
    /\ result.target.kind = "client"
    /\ result.closeConnection
    /\ result.ok
    /\ Len(result.closed) = 2
    /\ result.target.client \notin Range(result.closed)
    /\ clients[result.target.client].state # "SHUTDOWN"
    /\ ~Has(registry, result.name)

====
